---- MODULE Spec2Model ----
(***************************************************************************)
(* CoinScribe: the rate-limited serverless handler (netlify/functions/     *)
(* db-test.ts, optimised version), its fixed-window limiter, its cached    *)
(* database handle and its `limit` query parameter; the App component of   *)
(* the dashboard (useEffect fetch with AbortController, useMemo) and the   *)
(* ErrorBoundary component; the schema migration with its row-level        *)
(* security policies; scripts/quickstart.sh; the script of the static      *)
(* dashboard page (navigation, wallet, premium gate, subscription modal,   *)
(* prediction requests).                                                   *)
(***************************************************************************)
EXTENDS Integers, Sequences, FiniteSets, TLC

(***************************************************************************)
(* Bounds.  maxRequests, windowMs and MAX_RATE_LIMIT_ENTRIES stand for the *)
(* source's 60, 60000 and 10000; every formula is stated over the names,   *)
(* so the arithmetic of the limiter is the source's at a smaller scale.    *)
(***************************************************************************)
maxRequests == 2

windowMs == 3

MAX_RATE_LIMIT_ENTRIES == 1

MaxTime == 7

MaxLimitArg == 500

MaxRenders == 3

\* dashboard page: eth_requestAccounts calls, payment timers, data loads and
\* clicks of the prediction button that may be outstanding or made
MaxWalletPending == 1

MaxPayTimers == 1

MaxLoads == 1

MaxClicks == 3

MaxMounts == 2

MaxBoundaryRenders == 4

MaxReloads == 1

MaxNodeMajor == 20

\* the Node.js major version quickstart.sh asks for
MinNodeMajor == 18

(***************************************************************************)
(* JavaScript numbers as far as the handler needs them: an integer or NaN. *)
(***************************************************************************)
Num(n) == [nan |-> FALSE, n |-> n]

NaN == [nan |-> TRUE, n |-> 0]

MathMax(a, b) == IF a.nan \/ b.nan THEN NaN ELSE IF a.n >= b.n THEN a ELSE b

MathMin(a, b) == IF a.nan \/ b.nan THEN NaN ELSE IF a.n <= b.n THEN a ELSE b

(***************************************************************************)
(* Strings are sequences of one-character strings.                         *)
(***************************************************************************)
DecDigits == <<"0", "1", "2", "3", "4", "5", "6", "7", "8", "9">>

\* the value of each character that is a digit in some radix up to 16
DigitOf ==
  [c \in {"0", "1", "2", "3", "4", "5", "6", "7", "8", "9", "a", "b", "c",
          "d", "e", "f", "A", "B", "C", "D", "E", "F"} |->
     CASE c = "0" -> 0 [] c = "1" -> 1 [] c = "2" -> 2 [] c = "3" -> 3
       [] c = "4" -> 4 [] c = "5" -> 5 [] c = "6" -> 6 [] c = "7" -> 7
       [] c = "8" -> 8 [] c = "9" -> 9 [] c \in {"a", "A"} -> 10
       [] c \in {"b", "B"} -> 11 [] c \in {"c", "C"} -> 12
       [] c \in {"d", "D"} -> 13 [] c \in {"e", "E"} -> 14 [] OTHER -> 15]

WhiteSpace == {" ", "\t", "\n"}

\* value of character c in the given radix, -1 when c is no digit of it
DigitVal(c, radix) ==
  IF c \in DOMAIN DigitOf /\ DigitOf[c] < radix THEN DigitOf[c] ELSE -1

RECURSIVE TrimStart(_)
TrimStart(s) ==
  IF s # <<>> /\ Head(s) \in WhiteSpace THEN TrimStart(Tail(s)) ELSE s

\* the digits of s read left to right in the radix, stopping at the first
\* character that is no digit; acc is the value so far, any whether a digit
\* was seen
RECURSIVE ParseDigits(_, _, _, _)
ParseDigits(s, radix, acc, any) ==
  IF s = <<>> THEN [any |-> any, n |-> acc]
  ELSE LET d == DigitVal(Head(s), radix)
       IN  IF d < 0 THEN [any |-> any, n |-> acc]
           ELSE ParseDigits(Tail(s), radix, acc * radix + d, TRUE)

\* ECMAScript parseInt(string) with no radix argument
parseInt(str) ==
  LET s0 == TrimStart(str)
      neg == s0 # <<>> /\ Head(s0) = "-"
      s1 == IF s0 # <<>> /\ Head(s0) \in {"+", "-"} THEN Tail(s0) ELSE s0
      hex == Len(s1) >= 2 /\ s1[1] = "0" /\ s1[2] \in {"x", "X"}
      s2 == IF hex THEN Tail(Tail(s1)) ELSE s1
      r == ParseDigits(s2, IF hex THEN 16 ELSE 10, 0, FALSE)
  IN  IF ~r.any THEN NaN ELSE Num(IF neg THEN 0 - r.n ELSE r.n)

\* String(n) for an integer n
RECURSIVE NatToStr(_)
NatToStr(n) ==
  IF n < 10 THEN <<DecDigits[n + 1]>>
  ELSE Append(NatToStr(n \div 10), DecDigits[(n % 10) + 1])

IntToStr(n) == IF n < 0 THEN <<"-">> \o NatToStr(0 - n) ELSE NatToStr(n)

\* url.searchParams.get('limit'): null when the parameter is absent
Absent == [null |-> TRUE, s |-> <<>>]

Given(s) == [null |-> FALSE, s |-> s]

\* the limit computation without its lower clamp
ParseLimit_noFloor(param) ==
  LET text == IF param.null \/ param.s = <<>> THEN <<"1", "0">> ELSE param.s
  IN  MathMin(parseInt(text), Num(100))

\* Math.min(Math.max(parseInt(get('limit') || '10'), 1), 100)
ParseLimit(param) ==
  LET text == IF param.null \/ param.s = <<>> THEN <<"1", "0">> ELSE param.s
  IN  MathMin(MathMax(parseInt(text), Num(1)), Num(100))

\* JSON.stringify of a number: NaN is written as null
JsonNumber(x) == [null |-> x.nan, n |-> IF x.nan THEN 0 ELSE x.n]


(***************************************************************************)
(* State.                                                                  *)
(***************************************************************************)
VARIABLES
  now,           \* Date.now()
  rateLimitMap,  \* key -> [present, count, resetTime]
  cachedSql,     \* 0 for null, else the handle neon() returned
  neonOk,        \* number of neon() calls that returned a handle
  req,           \* the latest request, with what its environment did
  last,          \* the response it was given
  win,           \* per key, the window the claim counts in: [open, t0, n]
  recentA,       \* GET requests of client A at now, now-1, .., now-windowMs+1
  compliantA,    \* A never sent more than maxRequests in a windowMs span
  shadowA,       \* A's record in a limiter that sees only A's requests
  decA,          \* decision on A's latest GET: here, and in that limiter
  sinceDeniedA,  \* time since A's latest GET if it got 429 (at most windowMs)
  limitArg,      \* input of the limit computation
  limitOut,      \* its result, once applied
  phase,         \* per App instance: its place in the component lifecycle
  coins,         \* per App instance: reference held by the coins state
  loading,       \* per App instance: loading state
  error,         \* per App instance: error state (FALSE for null)
  aborted,       \* per App instance: abortController.signal.aborted
  memoDeps,      \* per App instance: the coins reference useMemo saw last
  formattedCoins,\* per App instance: reference useMemo returned last
  formatCalls,   \* per App instance: runs of the formatting callback
  renders,       \* per App instance: number of renders so far
  view,          \* per App instance: what the latest render returned
  ebProps,       \* ErrorBoundary: this.props (the fallback prop)
  ebState,       \* ErrorBoundary: this.state
  ebView,        \* ErrorBoundary: what render() returned last
  ebLogged,      \* ErrorBoundary: console.error calls of componentDidCatch
  ebRenders,     \* ErrorBoundary: render() calls since the page loaded
  ebReloads,     \* window.location.reload() calls
  db,            \* the database the migration is applied to
  dbPc,          \* index of the migration's next statement
  dbFailed,      \* a statement of the migration raised an error
  dbQuery,       \* the latest query, and what row-level security said
  qPc,           \* quickstart.sh: the step to run next
  qEnv,          \* quickstart.sh: the machine it runs on
  qResult,       \* quickstart.sh: per step, "not run", "ok" or "failed"
  qStatus,       \* quickstart.sh: exit status, -1 while it runs
  qWarned,       \* quickstart.sh: warnings printed
  activeTab,     \* dashboard page: data-tab of the nav item and view with class active
  pageHeader,    \* dashboard page: text of #page-header
  hasEthereum,   \* dashboard page: window.ethereum is defined
  walletPending, \* dashboard page: eth_requestAccounts calls not yet settled
  userAddress,   \* dashboard page: the script's userAddress
  walletText,    \* dashboard page: text of #user-wallet
  tierText,      \* dashboard page: text of #user-tier
  tierColor,     \* dashboard page: style.color of #user-tier
  isPremium,     \* dashboard page: the script's isPremium
  lockHidden,    \* dashboard page: #whale-lock has class hidden
  contentHidden, \* dashboard page: #whale-content has class hidden
  modalHidden,   \* dashboard page: #sub-modal has class hidden
  confirmSubBtn, \* dashboard page: label of #confirm-sub
  payTimers,     \* dashboard page: pending 1500 ms payment timers
  subscribed,    \* dashboard page: a subscription confirmation has completed
  indexCards,    \* dashboard page: the index cards fetchDashboardData fills
  marketTable,   \* dashboard page: body of #market-table
  marketTimers,  \* dashboard page: pending 800 ms timers of loadMarketData
  modelInfo,     \* dashboard page: text of #model-info-content
  modelFetches,  \* dashboard page: pending fetches of loadModelInfo
  lastAlert,     \* dashboard page: the latest alert() shown
  predClicks,    \* prediction: clicks of #run-prediction-btn so far
  predFetch,     \* prediction: per click, where its request stands
  predictBtn,    \* prediction: label of #run-prediction-btn
  resultsHidden, \* prediction: #prediction-results has class hidden
  shown          \* prediction: what #prediction-results holds, and of which click

handlerVars == <<now, rateLimitMap, cachedSql, neonOk, req, last, win, recentA,
                 compliantA, shadowA, decA, sinceDeniedA>>

limitVars == <<limitArg, limitOut>>

appVars == <<phase, coins, loading, error, aborted, memoDeps, formattedCoins,
             formatCalls, renders, view>>

quickVars == <<qPc, qEnv, qResult, qStatus, qWarned>>

dbVars == <<db, dbPc, dbFailed, dbQuery>>

boundaryVars == <<ebProps, ebState, ebView, ebLogged, ebRenders, ebReloads>>

dashVars == <<activeTab, pageHeader, hasEthereum, walletPending, userAddress,
              walletText, tierText, tierColor, isPremium, lockHidden,
              contentHidden, modalHidden, confirmSubBtn, payTimers, subscribed,
              indexCards, marketTable, marketTimers, modelInfo, modelFetches,
              lastAlert>>

predVars == <<predClicks, predFetch, predictBtn, resultsHidden, shown>>

pageVars == <<dashVars, predVars>>

vars == <<now, rateLimitMap, cachedSql, neonOk, req, last, win, recentA,
          compliantA, shadowA, decA, sinceDeniedA, limitArg, limitOut, phase,
          coins,
          loading, error, aborted, memoDeps, formattedCoins, formatCalls,
          renders, view, ebProps, ebState, ebView, ebLogged, ebRenders, ebReloads,
          db, dbPc, dbFailed, dbQuery, qPc, qEnv, qResult, qStatus, qWarned,
          activeTab, pageHeader, hasEthereum, walletPending, userAddress,
          walletText, tierText, tierColor, isPremium, lockHidden,
          contentHidden, modalHidden, confirmSubBtn, payTimers, subscribed,
          indexCards, marketTable, marketTimers, modelInfo, modelFetches,
          lastAlert, predClicks, predFetch, predictBtn, resultsHidden, shown>>

(***************************************************************************)
(* The rate limiter.                                                       *)
(***************************************************************************)
ClientIPs == {"A"}

\* context.ip as the platform supplies it; "" when it supplies none
ContextIps == ClientIPs \cup {""}

Keys == ClientIPs \cup {"unknown"}

Methods == {"GET", "POST"}

NoRecord == [present |-> FALSE, count |-> 0, resetTime |-> 0]

Record(c, r) == [present |-> TRUE, count |-> c, resetTime |-> r]

MapSize(map) == Cardinality({k \in Keys : map[k].present})

\* the sweep with the cutoff on the wrong side of now
Cleanup_wrongCutoff(map, t) ==
  IF MapSize(map) > MAX_RATE_LIMIT_ENTRIES
    THEN [k \in Keys |->
            IF map[k].present /\ map[k].resetTime < t + windowMs
              THEN NoRecord ELSE map[k]]
    ELSE map

\* the sweep run on every call, whatever the size of the map
Cleanup_always(map, t) ==
  [k \in Keys |->
     IF map[k].present /\ map[k].resetTime < t - windowMs
       THEN NoRecord ELSE map[k]]

\* the sweep with a cutoff two windows back
Cleanup_lateCutoff(map, t) ==
  IF MapSize(map) > MAX_RATE_LIMIT_ENTRIES
    THEN [k \in Keys |->
            IF map[k].present /\ map[k].resetTime < t - 2 * windowMs
              THEN NoRecord ELSE map[k]]
    ELSE map

\* the sweep at the head of checkRateLimit
Cleanup(map, t) ==
  IF MapSize(map) > MAX_RATE_LIMIT_ENTRIES
    THEN [k \in Keys |->
            IF map[k].present /\ map[k].resetTime < t - windowMs
              THEN NoRecord ELSE map[k]]
    ELSE map

\* checkRateLimit with the comparison against maxRequests off by one
checkRateLimit_inclusive(map, ip, t) ==
  LET record == map[ip]
      swept == Cleanup(map, t)
  IN  IF ~record.present \/ t > record.resetTime
        THEN [allowed |-> TRUE,
              map |-> [swept EXCEPT ![ip] = Record(1, t + windowMs)]]
      ELSE IF record.count <= maxRequests
        THEN [allowed |-> TRUE,
              map |-> IF swept[ip].present
                        THEN [swept EXCEPT ![ip].count = record.count + 1]
                        ELSE swept]
      ELSE [allowed |-> FALSE, map |-> swept]

\* checkRateLimit that opens a new window already at now = resetTime
checkRateLimit_resetAtBoundary(map, ip, t) ==
  LET record == map[ip]
      swept == Cleanup(map, t)
  IN  IF ~record.present \/ t >= record.resetTime
        THEN [allowed |-> TRUE,
              map |-> [swept EXCEPT ![ip] = Record(1, t + windowMs)]]
      ELSE IF record.count < maxRequests
        THEN [allowed |-> TRUE,
              map |-> IF swept[ip].present
                        THEN [swept EXCEPT ![ip].count = record.count + 1]
                        ELSE swept]
      ELSE [allowed |-> FALSE, map |-> swept]

\* checkRateLimit whose new record does not count the opening request
checkRateLimit_countFromZero(map, ip, t) ==
  LET record == map[ip]
      swept == Cleanup(map, t)
  IN  IF ~record.present \/ t > record.resetTime
        THEN [allowed |-> TRUE,
              map |-> [swept EXCEPT ![ip] = Record(0, t + windowMs)]]
      ELSE IF record.count < maxRequests
        THEN [allowed |-> TRUE,
              map |-> IF swept[ip].present
                        THEN [swept EXCEPT ![ip].count = record.count + 1]
                        ELSE swept]
      ELSE [allowed |-> FALSE, map |-> swept]

\* checkRateLimit that restarts the window of a refused request
checkRateLimit_extendsBlock(map, ip, t) ==
  LET record == map[ip]
      swept == Cleanup(map, t)
  IN  IF ~record.present \/ t > record.resetTime
        THEN [allowed |-> TRUE,
              map |-> [swept EXCEPT ![ip] = Record(1, t + windowMs)]]
      ELSE IF record.count < maxRequests
        THEN [allowed |-> TRUE,
              map |-> IF swept[ip].present
                        THEN [swept EXCEPT ![ip].count = record.count + 1]
                        ELSE swept]
      ELSE [allowed |-> FALSE,
            map |-> [swept EXCEPT ![ip].resetTime = t + windowMs]]

\* checkRateLimit(ip) at time t: the decision and the map it leaves.  The
\* record is read before the sweep, as in the source; the increment lands in
\* the map only if the sweep left that record there.
checkRateLimit(map, ip, t) ==
  LET record == map[ip]
      swept == Cleanup(map, t)
  IN  IF ~record.present \/ t > record.resetTime
        THEN [allowed |-> TRUE,
              map |-> [swept EXCEPT ![ip] = Record(1, t + windowMs)]]
      ELSE IF record.count < maxRequests
        THEN [allowed |-> TRUE,
              map |-> IF swept[ip].present
                        THEN [swept EXCEPT ![ip].count = record.count + 1]
                        ELSE swept]
      ELSE [allowed |-> FALSE, map |-> swept]

\* every request keyed under 'unknown'
ClientIp_alwaysUnknown(ip) == "unknown"

\* context.ip || 'unknown'
ClientIp(ip) == IF ip = "" THEN "unknown" ELSE ip

(***************************************************************************)
(* The cached connection handle.                                           *)
(***************************************************************************)
NeonOutcomes == {"ok", "Error", "other"}

\* getSql without the test of cachedSql
getSql_uncached(cached, made, outcome) ==
  IF outcome = "ok"
    THEN [sql |-> made + 1, cachedSql |-> made + 1, made |-> made + 1,
          thrown |-> ""]
    ELSE [sql |-> 0, cachedSql |-> cached, made |-> made, thrown |-> outcome]

\* getSql that keeps a handle in cachedSql although neon() threw
getSql_cachesFailure(cached, made, outcome) ==
  IF cached = 0
    THEN IF outcome = "ok"
           THEN [sql |-> made + 1, cachedSql |-> made + 1, made |-> made + 1,
                 thrown |-> ""]
           ELSE [sql |-> 0, cachedSql |-> made + 1, made |-> made,
                 thrown |-> outcome]
    ELSE [sql |-> cached, cachedSql |-> cached, made |-> made, thrown |-> ""]

\* getSql(): the handle to return, the new cachedSql, whether neon() ran and
\* returned, and what it threw ("" when nothing)
getSql(cached, made, outcome) ==
  IF cached = 0
    THEN IF outcome = "ok"
           THEN [sql |-> made + 1, cachedSql |-> made + 1, made |-> made + 1,
                 thrown |-> ""]
           ELSE [sql |-> 0, cachedSql |-> cached, made |-> made,
                 thrown |-> outcome]
    ELSE [sql |-> cached, cachedSql |-> cached, made |-> made, thrown |-> ""]


(***************************************************************************)
(* Responses of the rate-limited handler.  A response is recorded with the *)
(* request it answers: method and ip are the request's, thrown the error   *)
(* caught (if any), log what console.error was given.  A header value is a *)
(* sequence: of digits where the source computes it, else of one piece.    *)
(***************************************************************************)
NoError == [caught |-> FALSE, isError |-> FALSE, message |-> "", stack |-> ""]

\* what the try block can throw: neon() an Error or some other value,
\* new URL(req.url) a TypeError
Thrown(kind) ==
  IF kind = "Error"
    THEN [caught |-> TRUE, isError |-> TRUE, message |-> "connect failed",
          stack |-> "Error: connect failed at neon"]
  ELSE IF kind = "TypeError"
    THEN [caught |-> TRUE, isError |-> TRUE, message |-> "Invalid URL",
          stack |-> "TypeError: Invalid URL at new URL"]
  ELSE [caught |-> TRUE, isError |-> FALSE, message |-> "", stack |-> ""]

NoLimit == [null |-> TRUE, n |-> 0]

NoRequest ==
  [method |-> "", ip |-> "", status |-> 0, headers |-> <<>>, body |-> <<>>,
   limit |-> NoLimit, thrown |-> NoError, log |-> <<>>]

MethodNotAllowed(method, ip) ==
  [method |-> method, ip |-> ip, status |-> 405,
   headers |-> [h \in {"Content-Type", "Allow"} |->
                  IF h = "Allow" THEN <<"GET">> ELSE <<"application/json">>],
   body |-> [f \in {"error"} |-> "Method not allowed"],
   limit |-> NoLimit, thrown |-> NoError, log |-> <<>>]

\* String(Math.floor(Date.now() / 1000) + 60)
RateLimitReset(t) == IntToStr((t \div 1000) + 60)

RateLimitExceeded(method, ip) ==
  [method |-> method, ip |-> ip, status |-> 429,
   headers |-> [h \in {"Content-Type", "Retry-After", "X-RateLimit-Limit",
                       "X-RateLimit-Remaining", "X-RateLimit-Reset"} |->
                  CASE h = "Content-Type" -> <<"application/json">>
                    [] h = "Retry-After" -> <<"6", "0">>
                    [] h = "X-RateLimit-Limit" -> <<"6", "0">>
                    [] h = "X-RateLimit-Remaining" -> <<"0">>
                    [] OTHER -> RateLimitReset(now)],
   body |-> [f \in {"error", "message"} |->
               IF f = "error" THEN "Rate limit exceeded"
               ELSE "Too many requests. Please try again later."],
   limit |-> NoLimit, thrown |-> NoError, log |-> <<>>]

\* the header taken from the count as it was before this request
Remaining_stale(map, key) ==
  IF map[key].present
    THEN IF maxRequests - map[key].count + 1 >= 0
           THEN maxRequests - map[key].count + 1 ELSE 0
    ELSE maxRequests - 1

\* record ? Math.max(60 - record.count, 0) : 59, with 60 at the model's scale
Remaining(map, key) ==
  IF map[key].present
    THEN IF maxRequests - map[key].count >= 0
           THEN maxRequests - map[key].count ELSE 0
    ELSE maxRequests - 1

Ok(method, ip, limit, remaining) ==
  [method |-> method, ip |-> ip, status |-> 200,
   headers |-> [h \in {"Content-Type", "Cache-Control", "X-RateLimit-Limit",
                       "X-RateLimit-Remaining", "X-RateLimit-Reset"} |->
                  CASE h = "Content-Type" -> <<"application/json">>
                    [] h = "Cache-Control" -> <<"public, max-age=60">>
                    [] h = "X-RateLimit-Limit" -> <<"6", "0">>
                    [] h = "X-RateLimit-Remaining" -> IntToStr(remaining)
                    [] OTHER -> RateLimitReset(now)],
   body |-> [f \in {"message", "timestamp", "responseTime", "limit"} |->
               CASE f = "message" -> "Database connection available"
                 [] f = "timestamp" -> "toISOString"
                 [] f = "responseTime" -> "toFixed(2)ms"
                 [] OTHER -> "number"],
   limit |-> JsonNumber(limit), thrown |-> NoError, log |-> <<>>]

ErrorMessage(e) == IF e.isError THEN e.message ELSE "Unknown error"

\* the 500 response with errorDetails as its body
ServerError_leaky(method, ip, e) ==
  [method |-> method, ip |-> ip, status |-> 500,
   headers |-> [h \in {"Content-Type"} |-> <<"application/json">>],
   body |-> [f \in {"message", "stack", "timestamp", "responseTime", "ip"} |->
               CASE f = "message" -> ErrorMessage(e)
                 [] f = "stack" -> IF e.isError THEN e.stack ELSE "undefined"
                 [] f = "timestamp" -> "toISOString"
                 [] f = "responseTime" -> "toFixed(2)ms"
                 [] OTHER -> ClientIp(ip)],
   limit |-> NoLimit, thrown |-> e, log |-> <<>>]

ServerError(method, ip, e) ==
  [method |-> method, ip |-> ip, status |-> 500,
   headers |-> [h \in {"Content-Type"} |-> <<"application/json">>],
   body |-> [f \in {"error", "message", "timestamp"} |->
               CASE f = "error" -> "Database connection failed"
                 [] f = "message" -> ErrorMessage(e)
                 [] OTHER -> "toISOString"],
   limit |-> NoLimit, thrown |-> e,
   log |-> [f \in {"message", "stack", "timestamp", "responseTime", "ip"} |->
              CASE f = "message" -> ErrorMessage(e)
                [] f = "stack" -> IF e.isError THEN e.stack ELSE "undefined"
                [] f = "timestamp" -> "toISOString"
                [] f = "responseTime" -> "toFixed(2)ms"
                [] OTHER -> ClientIp(ip)]]

\* values url.searchParams.get('limit') takes in the handler's runs
LimitParams == {Absent, Given(<<"0">>), Given(<<"4", "2">>), Given(<<"a", "b", "c">>)}

\* the requests and what their environment does: an input the handler does
\* not get to read (the query of a non-GET request, the URL when neon() has
\* thrown) is listed with one value only
Requests ==
  {r \in [method : Methods, ip : ContextIps, param : LimitParams,
          outcome : NeonOutcomes, urlThrows : BOOLEAN] :
     /\ r.method # "GET" => r.outcome = "ok" /\ ~r.urlThrows
     /\ r.outcome # "ok" => ~r.urlThrows
     /\ (r.method # "GET" \/ r.outcome # "ok" \/ r.urlThrows) => r.param = Absent}

NoRequestYet ==
  [method |-> "", ip |-> "", param |-> Absent, outcome |-> "ok",
   urlThrows |-> FALSE]

\* the handler with the limiter consulted before the method is validated
Handler_limitFirst(r, rl, g) ==
  IF ~rl.allowed
    THEN [resp |-> RateLimitExceeded(r.method, r.ip), map |-> rl.map,
          cachedSql |-> cachedSql, made |-> neonOk, checked |-> TRUE,
          allowed |-> FALSE]
  ELSE IF r.method # "GET"
    THEN [resp |-> MethodNotAllowed(r.method, r.ip), map |-> rl.map,
          cachedSql |-> cachedSql, made |-> neonOk, checked |-> TRUE,
          allowed |-> FALSE]
  ELSE IF g.thrown # ""
    THEN [resp |-> ServerError(r.method, r.ip, Thrown(g.thrown)),
          map |-> rl.map, cachedSql |-> g.cachedSql, made |-> g.made,
          checked |-> TRUE, allowed |-> TRUE]
  ELSE IF r.urlThrows
    THEN [resp |-> ServerError(r.method, r.ip, Thrown("TypeError")),
          map |-> rl.map, cachedSql |-> g.cachedSql, made |-> g.made,
          checked |-> TRUE, allowed |-> TRUE]
  ELSE [resp |-> Ok(r.method, r.ip, ParseLimit(r.param),
                    Remaining(rl.map, ClientIp(r.ip))),
        map |-> rl.map, cachedSql |-> g.cachedSql, made |-> g.made,
        checked |-> TRUE, allowed |-> TRUE]

\* the handler from its first line to its return, for request r: rl is what
\* checkRateLimit(clientIp) gives and g what getSql() gives when the handler
\* gets to call them.  The result is the response and the state left behind.
Handler(r, rl, g) ==
  IF r.method # "GET"
    THEN [resp |-> MethodNotAllowed(r.method, r.ip), map |-> rateLimitMap,
          cachedSql |-> cachedSql, made |-> neonOk, checked |-> FALSE,
          allowed |-> FALSE]
  ELSE IF ~rl.allowed
    THEN [resp |-> RateLimitExceeded(r.method, r.ip), map |-> rl.map,
          cachedSql |-> cachedSql, made |-> neonOk, checked |-> TRUE,
          allowed |-> FALSE]
  ELSE IF g.thrown # ""
    THEN [resp |-> ServerError(r.method, r.ip, Thrown(g.thrown)),
          map |-> rl.map, cachedSql |-> g.cachedSql, made |-> g.made,
          checked |-> TRUE, allowed |-> TRUE]
  ELSE IF r.urlThrows
    THEN [resp |-> ServerError(r.method, r.ip, Thrown("TypeError")),
          map |-> rl.map, cachedSql |-> g.cachedSql, made |-> g.made,
          checked |-> TRUE, allowed |-> TRUE]
  ELSE [resp |-> Ok(r.method, r.ip, ParseLimit(r.param),
                    Remaining(rl.map, ClientIp(r.ip))),
        map |-> rl.map, cachedSql |-> g.cachedSql, made |-> g.made,
        checked |-> TRUE, allowed |-> TRUE]

(***************************************************************************)
(* Observers of the request history, kept beside the handler's state.      *)
(***************************************************************************)
NoWindow == [open |-> FALSE, t0 |-> 0, n |-> 0]

\* the window a let-through request at time t falls in: the one open at t,
\* else a new one opened by this request
CountInWindow(w, t) ==
  IF w.open /\ t <= w.t0 + windowMs
    THEN [w EXCEPT !.n = w.n + 1]
    ELSE [open |-> TRUE, t0 |-> t, n |-> 1]

Offsets == 0..(windowMs - 1)

NoneRecent == [d \in Offsets |-> 0]

SumRecent(r) ==
  LET RECURSIVE Sum(_)
      Sum(d) == IF d < 0 THEN 0 ELSE r[d] + Sum(d - 1)
  IN  Sum(windowMs - 1)

\* one more GET of A at the current instant
NoteRequest(r) == [r EXCEPT ![0] = r[0] + 1]

\* the clock advances by one: every request is one unit older
Age(r) == [d \in Offsets |-> IF d = 0 THEN 0 ELSE r[d - 1]]

EmptyMap == [k \in Keys |-> NoRecord]

\* A's latest GET was not answered 429
NotDenied == -1

\* the clock advances by one: the 429 is one unit older, counted up to
\* windowMs
Later(d) == IF d = NotDenied \/ d >= windowMs THEN d ELSE d + 1


(***************************************************************************)
(* The App component.  References are numbers: two values are the same     *)
(* object iff the numbers are equal.                                       *)
(***************************************************************************)
Instances == 1..MaxMounts

\* useMemo with no dependency array: fn runs on every render
UseMemo_noDeps(hasPrev, prevDep, prevVal, calls, dep) ==
  [dep |-> dep, val |-> calls + 1, calls |-> calls + 1]

\* useMemo(fn, [dep]): fn runs on the first render and when dep is not the
\* reference seen by the previous render; each run returns a new array
UseMemo(hasPrev, prevDep, prevVal, calls, dep) ==
  IF hasPrev /\ prevDep = dep
    THEN [dep |-> prevDep, val |-> prevVal, calls |-> calls]
    ELSE [dep |-> dep, val |-> calls + 1, calls |-> calls + 1]

\* the render guards skipped: the coin list whatever the state
AppView_noGuards(isLoading, err) == "coins"

\* what App returns: the loading message, else the error message (err is
\* FALSE for null), else the coin list
AppView(isLoading, err) ==
  IF isLoading THEN "loading"
  ELSE IF err # FALSE THEN "error"
  ELSE "coins"

\* fetchCoins(): the try block builds mockCoins (a new array) and stores it
\* unless the signal is aborted; nothing in it throws
fetchCoins(isAborted, c, l, e) ==
  IF ~isAborted
    THEN [coins |-> c + 1, loading |-> FALSE, error |-> e]
    ELSE [coins |-> c, loading |-> l, error |-> e]

(***************************************************************************)
(* The ErrorBoundary component.                                            *)
(***************************************************************************)
\* values of the optional fallback prop (a ReactNode); only an element is
\* truthy
Fallbacks == {"undefined", "null", "false", "emptyString", "element"}

Truthy(f) == f = "element"

\* what a descendant can throw while rendering: an Error with a message, an
\* Error with an empty message, a value that is not an Error
ChildErrors ==
  {[kind |-> "Error", message |-> "boom"],
   [kind |-> "Error", message |-> ""],
   [kind |-> "other", message |-> ""]}

NoChildError == [kind |-> "undefined", message |-> ""]

\* this.state.error?.message, as the text React puts in the paragraph
ErrorText(e) == IF e.kind = "Error" THEN e.message ELSE ""

\* constructor: this.state = { hasError: false }
InitialBoundaryState == [hasError |-> FALSE, error |-> NoChildError]

\* getDerivedStateFromError that stores the error without raising the flag
getDerivedStateFromError_noFlag(e) == [hasError |-> FALSE, error |-> e]

\* static getDerivedStateFromError(error)
getDerivedStateFromError(e) == [hasError |-> TRUE, error |-> e]

NothingRendered ==
  [kind |-> "none", node |-> "undefined", heading |-> "", message |-> "",
   button |-> ""]

ChildrenView == [NothingRendered EXCEPT !.kind = "children"]

FallbackView(f) == [NothingRendered EXCEPT !.kind = "fallback", !.node = f]

\* the default error page: heading, the error's message, the button whose
\* onClick is window.location.reload()
ErrorPage(e) ==
  [kind |-> "errorPage", node |-> "undefined",
   heading |-> "Something went wrong", message |-> ErrorText(e),
   button |-> "Reload Page"]

\* render() that shows the default page whatever the fallback prop holds
BoundaryRender_noFallback(state, props) ==
  IF state.hasError THEN ErrorPage(state.error) ELSE ChildrenView

\* render(): this.props.fallback || <default page> once an error is caught,
\* this.props.children otherwise
BoundaryRender(state, props) ==
  IF state.hasError
    THEN IF Truthy(props.fallback)
           THEN FallbackView(props.fallback)
           ELSE ErrorPage(state.error)
    ELSE ChildrenView

BoundaryInit ==
  /\ ebProps = [fallback |-> "undefined"]
  /\ ebState = InitialBoundaryState
  /\ ebView = NothingRendered
  /\ ebLogged = 0
  /\ ebRenders = 0
  /\ ebReloads = 0

(***************************************************************************)
(* The schema migration 20251210210000_create_coins_schema.sql, statement  *)
(* by statement, and what PostgreSQL does with each.                       *)
(***************************************************************************)
Tables == {"coins", "coin_price_history", "coin_news"}

\* values auth.role() can return: the three Supabase roles, and any other
Roles == {"anon", "authenticated", "service_role", "custom"}

Commands == {"SELECT", "INSERT", "UPDATE", "DELETE"}

\* a statement; the fields a kind of statement does not use hold "" or {}
Stmt(op, name, on) ==
  [op |-> op, name |-> name, on |-> on, cmd |-> "", expr |-> "", keys |-> {}]

\* CREATE TABLE with the indexes its PRIMARY KEY and UNIQUE constraints
\* are backed by
CreateTable(name, keys) == [Stmt("CREATE TABLE", name, name) EXCEPT !.keys = keys]

\* CREATE INDEX IF NOT EXISTS under a name another index already has
CreateIndex_sameName(name, on) == Stmt("CREATE INDEX", on, on)

CreateIndex(name, on) == Stmt("CREATE INDEX", name, on)

EnableRls(on) == Stmt("ENABLE RLS", "", on)

CreatePolicy(name, on, cmd, expr) ==
  [Stmt("CREATE POLICY", name, on) EXCEPT !.cmd = cmd, !.expr = expr]

ReadPolicy(on) ==
  CreatePolicy("Enable read access for all users", on, "SELECT", "true")

\* the insert policy written FOR ALL
InsertPolicy_forAll(on) ==
  CreatePolicy("Enable insert for authenticated users only", on, "ALL",
               "authenticated or service_role")

InsertPolicy(on) ==
  CreatePolicy("Enable insert for authenticated users only", on, "INSERT",
               "authenticated or service_role")

UpdatePolicy(on) ==
  CreatePolicy("Enable update for authenticated users only", on, "UPDATE",
               "authenticated or service_role")

Comment(name, on) == Stmt("COMMENT", name, on)

\* the statements of the migration, in file order
Migration ==
  <<Stmt("CREATE EXTENSION", "uuid-ossp", ""),
    CreateTable("coins", {"coins_pkey", "coins_symbol_key"}),
    CreateIndex("idx_coins_symbol", "coins"),
    CreateIndex("idx_coins_market_cap", "coins"),
    CreateIndex("idx_coins_volume", "coins"),
    CreateIndex("idx_coins_last_updated", "coins"),
    CreateIndex("idx_coins_active", "coins"),
    CreateTable("coin_price_history",
                {"coin_price_history_pkey", "unique_coin_timestamp"}),
    CreateIndex("idx_price_history_coin_id", "coin_price_history"),
    CreateIndex("idx_price_history_timestamp", "coin_price_history"),
    CreateIndex("idx_price_history_coin_timestamp", "coin_price_history"),
    CreateTable("coin_news", {"coin_news_pkey"}),
    CreateIndex("idx_news_coin_id", "coin_news"),
    CreateIndex("idx_news_published", "coin_news"),
    CreateIndex("idx_news_sentiment", "coin_news"),
    EnableRls("coins"), EnableRls("coin_price_history"), EnableRls("coin_news"),
    ReadPolicy("coins"), ReadPolicy("coin_price_history"), ReadPolicy("coin_news"),
    InsertPolicy("coins"), UpdatePolicy("coins"),
    InsertPolicy("coin_price_history"), UpdatePolicy("coin_price_history"),
    InsertPolicy("coin_news"), UpdatePolicy("coin_news"),
    Stmt("CREATE FUNCTION", "update_updated_at_column", ""),
    Stmt("CREATE TRIGGER", "update_coins_updated_at", "coins"),
    Stmt("INSERT", "sample data", "coins"),
    Comment("table", "coins"), Comment("table", "coin_price_history"),
    Comment("table", "coin_news"), Comment("coins.sentiment_score", "coins"),
    Comment("coins.ai_index_value", "coins")>>

EmptyDatabase ==
  [extensions |-> {}, tables |-> {}, indexes |-> {}, rls |-> {},
   policies |-> {}, functions |-> {}, triggers |-> {}, seeded |-> {},
   comments |-> {}]

Index(name, on, by) == [name |-> name, on |-> on, by |-> by]

Policy(s) == [name |-> s.name, on |-> s.on, cmd |-> s.cmd, expr |-> s.expr]

IndexNames(d) == {i.name : i \in d.indexes}

Failed(d) == [ok |-> FALSE, db |-> d]

Done(d) == [ok |-> TRUE, db |-> d]

\* one statement against database d: an error leaves d as it was
Execute(d, s) ==
  CASE s.op = "CREATE EXTENSION" ->
         Done([d EXCEPT !.extensions = @ \cup {s.name}])
    [] s.op = "CREATE TABLE" ->
         IF s.name \in d.tables THEN Done(d)
         ELSE IF "uuid-ossp" \notin d.extensions
                 \/ s.keys \cap IndexNames(d) # {} THEN Failed(d)
         ELSE Done([d EXCEPT !.tables = @ \cup {s.name},
                             !.indexes = @ \cup {Index(k, s.name, "constraint")
                                                   : k \in s.keys}])
    [] s.op = "CREATE INDEX" ->
         IF s.name \in IndexNames(d) THEN Done(d)
         ELSE IF s.on \notin d.tables THEN Failed(d)
         ELSE Done([d EXCEPT !.indexes = @ \cup {Index(s.name, s.on, "statement")}])
    [] s.op = "ENABLE RLS" ->
         IF s.on \notin d.tables THEN Failed(d)
         ELSE Done([d EXCEPT !.rls = @ \cup {s.on}])
    [] s.op = "CREATE POLICY" ->
         IF s.on \notin d.tables
              \/ \E p \in d.policies : p.name = s.name /\ p.on = s.on
           THEN Failed(d)
           ELSE Done([d EXCEPT !.policies = @ \cup {Policy(s)}])
    [] s.op = "CREATE FUNCTION" ->
         Done([d EXCEPT !.functions = @ \cup {s.name}])
    [] s.op = "CREATE TRIGGER" ->
         IF s.on \notin d.tables \/ "update_updated_at_column" \notin d.functions
              \/ <<s.name, s.on>> \in d.triggers
           THEN Failed(d)
           ELSE Done([d EXCEPT !.triggers = @ \cup {<<s.name, s.on>>}])
    [] s.op = "INSERT" ->
         IF s.on \notin d.tables THEN Failed(d)
         ELSE Done([d EXCEPT !.seeded = @ \cup {s.on}])
    [] s.op = "COMMENT" ->
         IF s.on \notin d.tables THEN Failed(d)
         ELSE Done([d EXCEPT !.comments = @ \cup {<<s.name, s.on>>}])

\* a policy's USING / WITH CHECK expression for a request whose auth.role()
\* is role
Holds(expr, role) ==
  CASE expr = "true" -> TRUE
    [] expr = "authenticated or service_role" ->
         role = "authenticated" \/ role = "service_role"

\* row-level security on table t for command cmd: without ENABLE ROW LEVEL
\* SECURITY nothing is filtered; with it, some permissive policy for the
\* command must hold, and with none every row is refused
PolicyPermits(d, role, cmd, t) ==
  t \in d.rls =>
    \E p \in d.policies :
      p.on = t /\ p.cmd \in {cmd, "ALL"} /\ Holds(p.expr, role)

NoQuery == [asked |-> FALSE, role |-> "", cmd |-> "", on |-> "", at |-> 0,
            outcome |-> ""]

DatabaseInit ==
  /\ db = EmptyDatabase
  /\ dbPc = 1
  /\ dbFailed = FALSE
  /\ dbQuery = NoQuery

(***************************************************************************)
(* scripts/quickstart.sh.                                                  *)
(***************************************************************************)
\* the steps of the script, in the order of the file
Steps ==
  <<"prerequisites", "npm install", "lint", "type-check", "build", "audit">>

NodeMajors == 16..MaxNodeMajor

\* what `node --version` prints for a major version: the usual v16.4.0, the
\* same without its v, or the same behind a word a wrapper puts first
VersionStyles == {"plain", "bare", "banner"}

NodeVersionOutput(major, style) ==
  LET bare == NatToStr(major) \o <<".", "4", ".", "0">>
  IN  CASE style = "plain" -> <<"v">> \o bare
        [] style = "bare" -> bare
        [] style = "banner" -> <<"n", "o", "d", "e", " ", "v">> \o bare

\* sed 's/v//': the first v of the line is removed
RECURSIVE SedDropV(_)
SedDropV(s) ==
  IF s = <<>> THEN s
  ELSE IF Head(s) = "v" THEN Tail(s)
  ELSE <<Head(s)>> \o SedDropV(Tail(s))

\* cut -d'.' -f1: the text before the first dot
RECURSIVE CutField1(_)
CutField1(s) ==
  IF s = <<>> \/ Head(s) = "." THEN <<>>
  ELSE <<Head(s)>> \o CutField1(Tail(s))

\* sed 's/[^0-9].*//': the text from the first non-digit on is removed
RECURSIVE SedDigits(_)
SedDigits(s) ==
  IF s = <<>> \/ DigitVal(Head(s), 10) < 0 THEN <<>>
  ELSE <<Head(s)>> \o SedDigits(Tail(s))

\* MAJOR_VERSION
MajorVersion(output) == SedDigits(CutField1(SedDropV(output)))

\* [ -n "$MAJOR_VERSION" ] && [ "$MAJOR_VERSION" -ge 0 ]
VersionParsed(m) == m # <<>> /\ ParseDigits(m, 10, 0, FALSE).n >= 0

\* the machine the script runs on: which commands exist, whether their
\* --version call succeeds, the Node.js installed and how it prints itself
Toolchains ==
  [node : BOOLEAN, nodeRuns : BOOLEAN, nodeMajor : NodeMajors,
   style : VersionStyles, npm : BOOLEAN, npmRuns : BOOLEAN, git : BOOLEAN,
   gitRuns : BOOLEAN]

NoToolchain ==
  [node |-> FALSE, nodeRuns |-> FALSE, nodeMajor |-> 16, style |-> "plain",
   npm |-> FALSE, npmRuns |-> FALSE, git |-> FALSE, gitRuns |-> FALSE]

\* status of a command that set -e ends the script on
CommandFailed == 2

Exit(status, warned) == [status |-> status, warned |-> warned]

\* the Node.js check: status 0 when the script goes on
CheckNode(env) ==
  LET m == MajorVersion(NodeVersionOutput(env.nodeMajor, env.style))
  IN  IF ~env.node THEN Exit(1, {})
      ELSE IF ~env.nodeRuns THEN Exit(CommandFailed, {})
      ELSE IF VersionParsed(m)
        THEN IF ParseDigits(m, 10, 0, FALSE).n < MinNodeMajor
               THEN Exit(1, {}) ELSE Exit(0, {})
        ELSE Exit(0, {"Could not parse Node.js version"})

\* the npm check
CheckNpm(env) ==
  IF ~env.npm THEN Exit(1, {})
  ELSE IF ~env.npmRuns THEN Exit(CommandFailed, {})
  ELSE Exit(0, {})

\* the Git check: a missing git is a warning
CheckGit(env) ==
  IF ~env.git THEN Exit(0, {"Git is not installed"})
  ELSE IF ~env.gitRuns THEN Exit(CommandFailed, {})
  ELSE Exit(0, {})

\* "Checking Prerequisites": Node.js, then npm, then Git
CheckPrerequisites(env) ==
  LET n == CheckNode(env)
      p == CheckNpm(env)
      g == CheckGit(env)
  IN  IF n.status # 0 THEN n
      ELSE IF p.status # 0 THEN Exit(p.status, n.warned)
      ELSE Exit(g.status, n.warned \cup g.warned)

\* a step that goes on after its command failed
AfterStep_goesOn(i, ok) ==
  IF i = Len(Steps)
    THEN [pc |-> Len(Steps) + 1, status |-> 0,
          warned |-> IF ok THEN {} ELSE {"Some vulnerabilities detected"}]
    ELSE [pc |-> i + 1, status |-> -1, warned |-> {}]

\* after step i (npm install .. audit) whose command succeeded or not: the
\* next step, or exit 1; the audit only warns and the script completes
AfterStep(i, ok) ==
  IF i = Len(Steps)
    THEN [pc |-> Len(Steps) + 1, status |-> 0,
          warned |-> IF ok THEN {} ELSE {"Some vulnerabilities detected"}]
  ELSE IF ok THEN [pc |-> i + 1, status |-> -1, warned |-> {}]
  ELSE [pc |-> 0, status |-> 1, warned |-> {}]

NotRun == [s \in 1..Len(Steps) |-> "not run"]

QuickstartInit ==
  /\ qPc = 0
  /\ qEnv = NoToolchain
  /\ qResult = NotRun
  /\ qStatus = -1
  /\ qWarned = {}

(***************************************************************************)
(* The script of the dashboard page.  The page's markup is not part of     *)
(* the sources: an element's text is Markup until the script writes it.    *)
(***************************************************************************)
Tabs == {"dashboard", "market", "model", "whale"}

Markup == "markup"

\* the last characters of the account addresses a wallet may return
AddressTails == {"2", "7", "e"}

\* a 42-character account address ending in c
Address(c) == <<"0", "x">> \o [i \in 1..39 |-> "a"] \o <<c>>

Accounts == {Address(c) : c \in AddressTails}

\* userAddress = null
NoAddress == <<>>

\* eth_requestAccounts rejected (the user denied access, code 4001)
Rejected == <<"4001">>

MarkupText == [markup |-> TRUE, text |-> <<>>]

\* `${userAddress.substring(0,6)}...${userAddress.substring(38)}`
ShortAddress(a) ==
  [markup |-> FALSE,
   text |-> SubSeq(a, 1, 6) \o <<".", ".", ".">> \o SubSeq(a, 39, Len(a))]

\* isNaN of a one-character string: Number(c) is a number for a decimal
\* digit and for white space
isNaN(c) == ~(c \in WhiteSpace \/ DigitVal(c, 10) >= 0)

\* checkPremiumStatus up to its refresh of the view: the tier it derives
\* from the address's last character; the colour is written only on the
\* premium branch
checkPremiumStatus(address, color) ==
  LET lastChar == address[Len(address)]
      n == parseInt(<<lastChar>>)
  IN  IF ~isNaN(lastChar) /\ ~n.nan /\ n.n % 2 = 0
        THEN [isPremium |-> TRUE, tierText |-> "Whale Tier",
              tierColor |-> "#FFD700"]
        ELSE [isPremium |-> FALSE, tierText |-> "Free Tier",
              tierColor |-> color]

\* a gate that shows the content whatever isPremium is
checkPremiumAccess_open(premium) ==
  [lockHidden |-> TRUE, contentHidden |-> FALSE]

\* checkPremiumAccess: the classes of #whale-lock and #whale-content
checkPremiumAccess(premium) ==
  [lockHidden |-> premium, contentHidden |-> ~premium]

\* the page as the script finds it when DOMContentLoaded fires; lock and
\* content say whether the markup gives #whale-lock and #whale-content the
\* class hidden, eth whether a wallet extension is installed
DashboardInit(lock, content, eth) ==
  /\ activeTab = "dashboard"
  /\ pageHeader = Markup
  /\ hasEthereum = eth
  /\ walletPending = 0
  /\ userAddress = NoAddress
  /\ walletText = MarkupText
  /\ tierText = Markup
  /\ tierColor = Markup
  /\ isPremium = FALSE
  /\ lockHidden = lock
  /\ contentHidden = content
  /\ modalHidden = TRUE
  /\ confirmSubBtn = Markup
  /\ payTimers = 0
  /\ subscribed = FALSE
  /\ indexCards = Markup
  /\ marketTable = Markup
  /\ marketTimers = 0
  /\ modelInfo = Markup
  /\ modelFetches = 0
  /\ lastAlert = "none"

NoResults == [click |-> 0, from |-> "none"]

\* what a prediction request can come to: a body with indices, a JSON body
\* without them, or a failed fetch or parse
Outcomes == {"indices", "noIndices", "failed"}

\* displayPredictionResults(data) for the request of click k: the container
\* is un-hidden first; data.indices.slice throws on a body without indices,
\* before innerHTML is written
displayPredictionResults(k, from, hasIndices, held) ==
  [hidden |-> FALSE,
   shown |-> IF hasIndices THEN [click |-> k, from |-> from] ELSE held,
   threw |-> ~hasIndices]

PredictionInit(hidden) ==
  /\ predClicks = 0
  /\ predFetch = [k \in 1..MaxClicks |-> "none"]
  /\ predictBtn = Markup
  /\ resultsHidden = hidden
  /\ shown = NoResults

(***************************************************************************)
(* Initial states.                                                         *)
(***************************************************************************)
HandlerInit ==
  /\ now = 0
  /\ rateLimitMap = EmptyMap
  /\ cachedSql = 0
  /\ neonOk = 0
  /\ req = NoRequestYet
  /\ last = NoRequest
  /\ win = [k \in Keys |-> NoWindow]
  /\ recentA = NoneRecent
  /\ compliantA = TRUE
  /\ shadowA = EmptyMap
  /\ decA = [asked |-> FALSE, real |-> TRUE, iso |-> TRUE]
  /\ sinceDeniedA = NotDenied

NotApplied == [done |-> FALSE, v |-> NaN]

LimitIdle ==
  /\ limitArg = Absent
  /\ limitOut = NotApplied

AppInit ==
  /\ phase = [i \in Instances |-> "none"]
  /\ coins = [i \in Instances |-> 0]
  /\ loading = [i \in Instances |-> TRUE]
  /\ error = [i \in Instances |-> FALSE]
  /\ aborted = [i \in Instances |-> FALSE]
  /\ memoDeps = [i \in Instances |-> 0]
  /\ formattedCoins = [i \in Instances |-> 0]
  /\ formatCalls = [i \in Instances |-> 0]
  /\ renders = [i \in Instances |-> 0]
  /\ view = [i \in Instances |-> "none"]

Init ==
  /\ HandlerInit /\ LimitIdle /\ AppInit /\ BoundaryInit /\ DatabaseInit
  /\ QuickstartInit /\ DashboardInit(FALSE, TRUE, TRUE) /\ PredictionInit(TRUE)

(***************************************************************************)
(* The serverless function: time passes, requests arrive.                  *)
(***************************************************************************)
Tick ==
  /\ now < MaxTime
  /\ now' = now + 1
  /\ recentA' = IF compliantA THEN Age(recentA) ELSE recentA
  /\ sinceDeniedA' = Later(sinceDeniedA)
  /\ UNCHANGED <<rateLimitMap, cachedSql, neonOk, req, last, win, compliantA,
                 shadowA, decA>>
  /\ UNCHANGED <<limitVars, appVars, boundaryVars, dbVars,
                 quickVars, pageVars>>

Request ==
  \E r \in Requests :
  \E rl \in {checkRateLimit(rateLimitMap, ClientIp(r.ip), now)} :
  \E g \in {getSql(cachedSql, neonOk, r.outcome)} :
  \E h \in {Handler(r, rl, g)} :
  \E iso \in {checkRateLimit(shadowA, "A", now)} :
  \E noted \in {NoteRequest(recentA)} :
    LET key == ClientIp(r.ip)
        fromA == h.checked /\ key = "A"
    IN  /\ rateLimitMap' = h.map
        /\ cachedSql' = h.cachedSql
        /\ neonOk' = h.made
        /\ req' = r
        /\ last' = h.resp
        /\ win' = IF h.allowed
                    THEN [win EXCEPT ![key] = CountInWindow(win[key], now)]
                    ELSE win
        /\ compliantA' = (compliantA /\ (fromA => SumRecent(noted) <= maxRequests))
        /\ recentA' = IF ~compliantA' THEN NoneRecent
                      ELSE IF fromA THEN noted ELSE recentA
        /\ shadowA' = IF fromA THEN iso.map ELSE shadowA
        /\ decA' = IF fromA
                     THEN [asked |-> TRUE, real |-> h.allowed, iso |-> iso.allowed]
                     ELSE decA
        /\ sinceDeniedA' = IF ~fromA THEN sinceDeniedA
                           ELSE IF h.allowed THEN NotDenied ELSE 0
        /\ UNCHANGED now
        /\ UNCHANGED <<limitVars, appVars, boundaryVars, dbVars,
                       quickVars, pageVars>>

Next == Tick \/ Request

Spec == Init /\ [][Next]_vars

(***************************************************************************)
(* The limit computation on its own, over a range of inputs.               *)
(***************************************************************************)
LimitRange == (0 - MaxLimitArg)..MaxLimitArg

\* the decimal text of each integer of the range
IntStrings == [n \in LimitRange |-> IntToStr(n)]

LimitInputs ==
  {Absent, Given(<<>>)}
  \cup {Given(IntStrings[n]) : n \in LimitRange}
  \cup {Given(<<"a", "b", "c">>), Given(<<"1", "2", "p", "x">>),
        Given(<<" ", "7">>), Given(<<"+", "3">>), Given(<<"-">>),
        Given(<<"4", ".", "7">>), Given(<<"0", "x", "1", "F">>),
        Given(<<"1", "e", "3">>)}

InitLimit ==
  /\ HandlerInit
  /\ AppInit
  /\ BoundaryInit
  /\ DatabaseInit
  /\ QuickstartInit
  /\ DashboardInit(FALSE, TRUE, TRUE)
  /\ PredictionInit(TRUE)
  /\ limitArg \in LimitInputs
  /\ limitOut = NotApplied

ApplyLimit ==
  /\ ~limitOut.done
  /\ limitOut' = [done |-> TRUE, v |-> ParseLimit(limitArg)]
  /\ UNCHANGED limitArg
  /\ UNCHANGED <<handlerVars, appVars, boundaryVars, dbVars,
                 quickVars, pageVars>>

NextLimit == ApplyLimit

SpecLimit == InitLimit /\ [][NextLimit]_vars

(***************************************************************************)
(* The App component's lifecycle.                                          *)
(***************************************************************************)
\* first render: useState initial values, useMemo's first run
AppMount(i) ==
  LET m == UseMemo(FALSE, 0, 0, 0, 0)
  IN  /\ phase[i] = "none"
      /\ phase' = [phase EXCEPT ![i] = "rendered"]
      /\ coins' = [coins EXCEPT ![i] = 0]
      /\ loading' = [loading EXCEPT ![i] = TRUE]
      /\ error' = [error EXCEPT ![i] = FALSE]
      /\ memoDeps' = [memoDeps EXCEPT ![i] = m.dep]
      /\ formattedCoins' = [formattedCoins EXCEPT ![i] = m.val]
      /\ formatCalls' = [formatCalls EXCEPT ![i] = m.calls]
      /\ renders' = [renders EXCEPT ![i] = 1]
      /\ view' = [view EXCEPT ![i] = AppView(TRUE, FALSE)]
      /\ UNCHANGED aborted
      /\ UNCHANGED <<handlerVars, limitVars, boundaryVars, dbVars,
                     quickVars, pageVars>>

\* the effect with a fetch that may settle after the cleanup and stores its
\* result without looking at the signal
AppEffect_late(i) ==
  LET f == fetchCoins(FALSE, coins[i], loading[i], error[i])
  IN  /\ phase[i] \in {"rendered", "unmounted"}
      /\ phase' = [phase EXCEPT ![i] = IF @ = "rendered" THEN "mounted" ELSE @]
      /\ aborted' = aborted
      /\ coins' = [coins EXCEPT ![i] = f.coins]
      /\ loading' = [loading EXCEPT ![i] = f.loading]
      /\ error' = [error EXCEPT ![i] = f.error]
      /\ UNCHANGED <<memoDeps, formattedCoins, formatCalls, renders, view>>
      /\ UNCHANGED <<handlerVars, limitVars, boundaryVars, dbVars,
                     quickVars, pageVars>>

\* the effect, run once after the first commit: a fresh AbortController,
\* then fetchCoins() to its end (it has no await)
AppEffect(i) ==
  LET f == fetchCoins(FALSE, coins[i], loading[i], error[i])
  IN  /\ phase[i] = "rendered"
      /\ phase' = [phase EXCEPT ![i] = "mounted"]
      /\ aborted' = [aborted EXCEPT ![i] = FALSE]
      /\ coins' = [coins EXCEPT ![i] = f.coins]
      /\ loading' = [loading EXCEPT ![i] = f.loading]
      /\ error' = [error EXCEPT ![i] = f.error]
      /\ UNCHANGED <<memoDeps, formattedCoins, formatCalls, renders, view>>
      /\ UNCHANGED <<handlerVars, limitVars, boundaryVars, dbVars,
                     quickVars, pageVars>>

\* a later render of the mounted component
AppRender(i) ==
  LET m == UseMemo(TRUE, memoDeps[i], formattedCoins[i], formatCalls[i], coins[i])
  IN  /\ phase[i] \in {"rendered", "mounted"}
      /\ renders[i] < MaxRenders
      /\ renders' = [renders EXCEPT ![i] = renders[i] + 1]
      /\ view' = [view EXCEPT ![i] = AppView(loading[i], error[i])]
      /\ memoDeps' = [memoDeps EXCEPT ![i] = m.dep]
      /\ formattedCoins' = [formattedCoins EXCEPT ![i] = m.val]
      /\ formatCalls' = [formatCalls EXCEPT ![i] = m.calls]
      /\ UNCHANGED <<phase, coins, loading, error, aborted>>
      /\ UNCHANGED <<handlerVars, limitVars, boundaryVars, dbVars,
                     quickVars, pageVars>>

\* unmount: the effect's cleanup aborts the controller
AppUnmount(i) ==
  /\ phase[i] = "mounted"
  /\ phase' = [phase EXCEPT ![i] = "unmounted"]
  /\ aborted' = [aborted EXCEPT ![i] = TRUE]
  /\ UNCHANGED <<coins, loading, error, memoDeps, formattedCoins, formatCalls,
                 renders, view>>
  /\ UNCHANGED <<handlerVars, limitVars, boundaryVars, dbVars,
                 quickVars, pageVars>>

NextApp ==
  \E i \in Instances : AppMount(i) \/ AppEffect(i) \/ AppRender(i) \/ AppUnmount(i)

SpecApp == Init /\ [][NextApp]_vars

(***************************************************************************)
(* The ErrorBoundary's lifecycle.                                          *)
(***************************************************************************)
\* the parent renders the boundary with fallback f and no descendant throws
BoundaryRenders(f) ==
  /\ ebRenders < MaxBoundaryRenders
  /\ ebProps' = [fallback |-> f]
  /\ ebView' = BoundaryRender(ebState, ebProps')
  /\ ebRenders' = ebRenders + 1
  /\ UNCHANGED <<ebState, ebLogged, ebReloads>>
  /\ UNCHANGED <<handlerVars, limitVars, appVars, dbVars,
                 quickVars, pageVars>>

\* the boundary renders its children and one of them throws e: React takes
\* the new state from getDerivedStateFromError, renders the boundary again
\* and calls componentDidCatch, which logs
ChildThrows(f, e) ==
  /\ ~ebState.hasError
  /\ ebRenders + 1 < MaxBoundaryRenders
  /\ ebProps' = [fallback |-> f]
  /\ ebState' = getDerivedStateFromError(e)
  /\ ebView' = BoundaryRender(ebState', ebProps')
  /\ ebLogged' = ebLogged + 1
  /\ ebRenders' = ebRenders + 2
  /\ UNCHANGED ebReloads
  /\ UNCHANGED <<handlerVars, limitVars, appVars, dbVars,
                 quickVars, pageVars>>

\* the button of the default page is clicked: window.location.reload()
\* loads the page anew
ReloadClicked ==
  /\ ebView.button = "Reload Page"
  /\ ebReloads < MaxReloads
  /\ ebProps' = [fallback |-> "undefined"]
  /\ ebState' = InitialBoundaryState
  /\ ebView' = NothingRendered
  /\ ebLogged' = 0
  /\ ebRenders' = 0
  /\ ebReloads' = ebReloads + 1
  /\ UNCHANGED <<handlerVars, limitVars, appVars, dbVars,
                 quickVars, pageVars>>

NextBoundary ==
  \/ \E f \in Fallbacks : BoundaryRenders(f)
  \/ \E f \in Fallbacks : \E e \in ChildErrors : ChildThrows(f, e)
  \/ ReloadClicked

SpecBoundary == Init /\ [][NextBoundary]_vars

(***************************************************************************)
(* Applying the migration, and queries against the database.               *)
(***************************************************************************)
MigrationApplied == dbPc = Len(Migration) + 1 /\ ~dbFailed

\* the next statement of the migration runs; a failing statement ends it
ApplyStatement ==
  /\ dbPc <= Len(Migration)
  /\ ~dbFailed
  /\ \E x \in {Execute(db, Migration[dbPc])} :
       /\ db' = x.db
       /\ dbFailed' = ~x.ok
       /\ dbPc' = IF x.ok THEN dbPc + 1 ELSE dbPc
  /\ UNCHANGED dbQuery
  /\ UNCHANGED <<handlerVars, limitVars, appVars, boundaryVars,
                 quickVars, pageVars>>

\* a request with the given role runs cmd on table t
Query(role, cmd, t) ==
  /\ dbQuery' = [asked |-> TRUE, role |-> role, cmd |-> cmd, on |-> t,
                 at |-> dbPc,
                 outcome |-> IF t \notin db.tables THEN "no such table"
                             ELSE IF PolicyPermits(db, role, cmd, t)
                               THEN "permitted" ELSE "denied"]
  /\ UNCHANGED <<db, dbPc, dbFailed>>
  /\ UNCHANGED <<handlerVars, limitVars, appVars, boundaryVars,
                 quickVars, pageVars>>

NextMigration ==
  \/ ApplyStatement
  \/ \E role \in Roles : \E cmd \in Commands : \E t \in Tables :
       Query(role, cmd, t)

SpecMigration == Init /\ [][NextMigration]_vars

(***************************************************************************)
(* A run of scripts/quickstart.sh.  qPc is the index in Steps of the step  *)
(* to run next, Len(Steps) + 1 at "Setup Complete!", 0 before the run and  *)
(* after an exit; qStatus is -1 until the script has ended.                *)
(***************************************************************************)
SetupComplete == qPc = Len(Steps) + 1

\* the script is started on some machine
QuickstartStarts(env) ==
  /\ qPc = 0 /\ qStatus = -1
  /\ qEnv' = env
  /\ qPc' = 1
  /\ UNCHANGED <<qResult, qStatus, qWarned>>
  /\ UNCHANGED <<handlerVars, limitVars, appVars, boundaryVars, dbVars,
               pageVars>>

\* "Checking Prerequisites"
Prerequisites ==
  /\ qPc = 1
  /\ \E c \in {CheckPrerequisites(qEnv)} :
       /\ qResult' = [qResult EXCEPT ![1] = IF c.status = 0 THEN "ok" ELSE "failed"]
       /\ qPc' = IF c.status = 0 THEN 2 ELSE 0
       /\ qStatus' = IF c.status = 0 THEN -1 ELSE c.status
       /\ qWarned' = qWarned \cup c.warned
  /\ UNCHANGED qEnv
  /\ UNCHANGED <<handlerVars, limitVars, appVars, boundaryVars, dbVars,
               pageVars>>

\* npm install, npm run lint, npm run type-check, npm run build, npm audit:
\* the command of step i succeeds or fails
RunStep(i, ok) ==
  /\ qPc = i
  /\ \E a \in {AfterStep(i, ok)} :
       /\ qResult' = [qResult EXCEPT ![i] = IF ok THEN "ok" ELSE "failed"]
       /\ qPc' = a.pc
       /\ qStatus' = a.status
       /\ qWarned' = qWarned \cup a.warned
  /\ UNCHANGED qEnv
  /\ UNCHANGED <<handlerVars, limitVars, appVars, boundaryVars, dbVars,
               pageVars>>

NextQuickstart ==
  \/ \E env \in Toolchains : QuickstartStarts(env)
  \/ Prerequisites
  \/ \E i \in 2..Len(Steps) : \E ok \in BOOLEAN : RunStep(i, ok)

SpecQuickstart == Init /\ [][NextQuickstart]_vars

(***************************************************************************)
(* The dashboard page: navigation, wallet, premium gate, subscription.     *)
(***************************************************************************)
\* click on a nav item: it and its view become the active ones, the header
\* takes its label, the whale tab runs the premium gate, the market and the
\* model tab start loading their data
NavItemClicked(tab) ==
  /\ tab = "market" => marketTimers < MaxLoads
  /\ tab = "model" => modelFetches < MaxLoads
  /\ activeTab' = tab
  /\ pageHeader' = tab
  /\ \E a \in {checkPremiumAccess(isPremium)} :
       /\ lockHidden' = IF tab = "whale" THEN a.lockHidden ELSE lockHidden
       /\ contentHidden' =
            IF tab = "whale" THEN a.contentHidden ELSE contentHidden
  /\ marketTable' = IF tab = "market" THEN "loading" ELSE marketTable
  /\ marketTimers' = IF tab = "market" THEN marketTimers + 1 ELSE marketTimers
  /\ modelFetches' = IF tab = "model" THEN modelFetches + 1 ELSE modelFetches
  /\ UNCHANGED <<hasEthereum, walletPending, userAddress, walletText, tierText,
                 tierColor, isPremium, modalHidden, confirmSubBtn, payTimers,
                 subscribed, indexCards, modelInfo, lastAlert>>
  /\ UNCHANGED <<handlerVars, limitVars, appVars, boundaryVars, dbVars,
                 quickVars, predVars>>

\* the 800 ms timer of loadMarketData writes the table's rows
MarketTimer ==
  /\ marketTimers > 0
  /\ marketTimers' = marketTimers - 1
  /\ marketTable' = "rows"
  /\ UNCHANGED <<activeTab, pageHeader, hasEthereum, walletPending,
                 userAddress, walletText, tierText, tierColor, isPremium,
                 lockHidden, contentHidden, modalHidden, confirmSubBtn,
                 payTimers, subscribed, indexCards, modelInfo, modelFetches,
                 lastAlert>>
  /\ UNCHANGED <<handlerVars, limitVars, appVars, boundaryVars, dbVars,
                 quickVars, predVars>>

\* the fetch of loadModelInfo settles: the JSON text, or the error text
ModelInfoSettled(ok) ==
  /\ modelFetches > 0
  /\ modelFetches' = modelFetches - 1
  /\ modelInfo' = IF ok THEN "json" ELSE "Error loading model info"
  /\ UNCHANGED <<activeTab, pageHeader, hasEthereum, walletPending,
                 userAddress, walletText, tierText, tierColor, isPremium,
                 lockHidden, contentHidden, modalHidden, confirmSubBtn,
                 payTimers, subscribed, indexCards, marketTable, marketTimers,
                 lastAlert>>
  /\ UNCHANGED <<handlerVars, limitVars, appVars, boundaryVars, dbVars,
                 quickVars, predVars>>

\* the 500 ms timer fetchDashboardData set when the page loaded
DashboardDataTimer ==
  /\ indexCards = Markup
  /\ indexCards' = "mock"
  /\ UNCHANGED <<activeTab, pageHeader, hasEthereum, walletPending,
                 userAddress, walletText, tierText, tierColor, isPremium,
                 lockHidden, contentHidden, modalHidden, confirmSubBtn,
                 payTimers, subscribed, marketTable, marketTimers, modelInfo,
                 modelFetches, lastAlert>>
  /\ UNCHANGED <<handlerVars, limitVars, appVars, boundaryVars, dbVars,
                 quickVars, predVars>>

\* click on the wallet box: connectWallet up to its await, or its alert
WalletClicked ==
  /\ hasEthereum => walletPending < MaxWalletPending
  /\ walletPending' = IF hasEthereum THEN walletPending + 1 ELSE walletPending
  /\ lastAlert' = IF hasEthereum THEN lastAlert ELSE "Please install MetaMask!"
  /\ UNCHANGED <<activeTab, pageHeader, hasEthereum, userAddress, walletText,
                 tierText, tierColor, isPremium, lockHidden, contentHidden,
                 modalHidden, confirmSubBtn, payTimers, subscribed, indexCards,
                 marketTable, marketTimers, modelInfo, modelFetches>>
  /\ UNCHANGED <<handlerVars, limitVars, appVars, boundaryVars, dbVars,
                 quickVars, predVars>>

\* eth_requestAccounts settles with r.  Resolved with an account: the rest of
\* connectWallet, checkPremiumStatus and its refresh of the view when the
\* whale tab is active.  Rejected: the catch block logs and nothing is written
WalletSettled(r) ==
  /\ walletPending > 0
  /\ walletPending' = walletPending - 1
  /\ \E a \in {IF r = Rejected THEN userAddress ELSE r} :
     \E st \in {IF r = Rejected
                  THEN [isPremium |-> isPremium, tierText |-> tierText,
                        tierColor |-> tierColor]
                  ELSE checkPremiumStatus(a, tierColor)} :
     \E g \in {checkPremiumAccess(st.isPremium)} :
       /\ userAddress' = a
       /\ walletText' = IF r = Rejected THEN walletText ELSE ShortAddress(a)
       /\ isPremium' = st.isPremium
       /\ tierText' = st.tierText
       /\ tierColor' = st.tierColor
       /\ lockHidden' = IF r # Rejected /\ activeTab = "whale"
                          THEN g.lockHidden ELSE lockHidden
       /\ contentHidden' = IF r # Rejected /\ activeTab = "whale"
                             THEN g.contentHidden ELSE contentHidden
  /\ UNCHANGED <<activeTab, pageHeader, hasEthereum, modalHidden,
                 confirmSubBtn, payTimers, subscribed, indexCards, marketTable,
                 marketTimers, modelInfo, modelFetches, lastAlert>>
  /\ UNCHANGED <<handlerVars, limitVars, appVars, boundaryVars, dbVars,
                 quickVars, predVars>>

\* click on #subscribe-btn (FALSE) or on .close-modal (TRUE)
ModalClicked(hide) ==
  /\ modalHidden' = hide
  /\ UNCHANGED <<activeTab, pageHeader, hasEthereum, walletPending,
                 userAddress, walletText, tierText, tierColor, isPremium,
                 lockHidden, contentHidden, confirmSubBtn, payTimers,
                 subscribed, indexCards, marketTable, marketTimers, modelInfo,
                 modelFetches, lastAlert>>
  /\ UNCHANGED <<handlerVars, limitVars, appVars, boundaryVars, dbVars,
                 quickVars, predVars>>

\* click on #confirm-sub: the spinner, and the 1500 ms payment timer is set
ConfirmSubClicked ==
  /\ payTimers < MaxPayTimers
  /\ payTimers' = payTimers + 1
  /\ confirmSubBtn' = "Processing..."
  /\ UNCHANGED <<activeTab, pageHeader, hasEthereum, walletPending,
                 userAddress, walletText, tierText, tierColor, isPremium,
                 lockHidden, contentHidden, modalHidden, subscribed,
                 indexCards, marketTable, marketTimers, modelInfo,
                 modelFetches, lastAlert>>
  /\ UNCHANGED <<handlerVars, limitVars, appVars, boundaryVars, dbVars,
                 quickVars, predVars>>

\* the payment timer fires: the subscription confirmation completes
PaymentTimer ==
  /\ payTimers > 0
  /\ payTimers' = payTimers - 1
  /\ isPremium' = TRUE
  /\ tierText' = "Whale Tier"
  /\ tierColor' = "#FFD700"
  /\ modalHidden' = TRUE
  /\ \E g \in {checkPremiumAccess(TRUE)} :
       /\ lockHidden' = g.lockHidden
       /\ contentHidden' = g.contentHidden
  /\ lastAlert' = "Upgrade Successful! Welcome to Whale Tier."
  /\ confirmSubBtn' = "Pay with Crypto"
  /\ subscribed' = TRUE
  /\ UNCHANGED <<activeTab, pageHeader, hasEthereum, walletPending,
                 userAddress, walletText, indexCards, marketTable,
                 marketTimers, modelInfo, modelFetches>>
  /\ UNCHANGED <<handlerVars, limitVars, appVars, boundaryVars, dbVars,
                 quickVars, predVars>>

NextDashboard ==
  \/ \E tab \in Tabs : NavItemClicked(tab)
  \/ MarketTimer
  \/ \E ok \in BOOLEAN : ModelInfoSettled(ok)
  \/ DashboardDataTimer
  \/ WalletClicked
  \/ \E r \in Accounts \cup {Rejected} : WalletSettled(r)
  \/ \E hide \in BOOLEAN : ModalClicked(hide)
  \/ ConfirmSubClicked
  \/ PaymentTimer

InitDashboard ==
  /\ HandlerInit /\ LimitIdle /\ AppInit /\ BoundaryInit /\ DatabaseInit
  /\ QuickstartInit /\ PredictionInit(TRUE)
  /\ \E lock \in BOOLEAN, content \in BOOLEAN, eth \in BOOLEAN :
       DashboardInit(lock, content, eth)

SpecDashboard == InitDashboard /\ [][NextDashboard]_vars

(***************************************************************************)
(* The dashboard page: prediction requests.                                *)
(***************************************************************************)
\* click on #run-prediction-btn: the spinner, and the POST is sent
PredictClicked ==
  /\ predClicks < MaxClicks
  /\ predClicks' = predClicks + 1
  /\ predFetch' = [predFetch EXCEPT ![predClicks + 1] = "pending"]
  /\ predictBtn' = "Analyzing..."
  /\ UNCHANGED <<resultsHidden, shown>>
  /\ UNCHANGED <<handlerVars, limitVars, appVars, boundaryVars, dbVars,
                 quickVars, dashVars>>

\* the request of click k settles: its results are displayed, or the catch
\* block sets the 1000 ms fallback timer; finally the button's label is reset
FetchSettled(k, outcome) ==
  /\ predFetch[k] = "pending"
  /\ \E d \in {IF outcome = "failed"
                 THEN [hidden |-> resultsHidden, shown |-> shown,
                       threw |-> TRUE]
                 ELSE displayPredictionResults(k, "response",
                                               outcome = "indices", shown)} :
       /\ resultsHidden' = d.hidden
       /\ shown' = d.shown
       /\ predFetch' = [predFetch EXCEPT
                          ![k] = IF d.threw THEN "timer" ELSE "done"]
  /\ predictBtn' = "Run Analysis"
  /\ UNCHANGED predClicks
  /\ UNCHANGED <<handlerVars, limitVars, appVars, boundaryVars, dbVars,
                 quickVars, dashVars>>

\* the fallback timer of click k fires: the demo results are displayed
FallbackTimer(k) ==
  /\ predFetch[k] = "timer"
  /\ \E d \in {displayPredictionResults(k, "fallback", TRUE, shown)} :
       /\ resultsHidden' = d.hidden
       /\ shown' = d.shown
  /\ predFetch' = [predFetch EXCEPT ![k] = "done"]
  /\ UNCHANGED <<predClicks, predictBtn>>
  /\ UNCHANGED <<handlerVars, limitVars, appVars, boundaryVars, dbVars,
                 quickVars, dashVars>>

NextPrediction ==
  \/ PredictClicked
  \/ \E k \in 1..MaxClicks : \E outcome \in Outcomes : FetchSettled(k, outcome)
  \/ \E k \in 1..MaxClicks : FallbackTimer(k)

InitPrediction ==
  /\ HandlerInit /\ LimitIdle /\ AppInit /\ BoundaryInit /\ DatabaseInit
  /\ QuickstartInit /\ DashboardInit(FALSE, TRUE, TRUE)
  /\ \E hidden \in BOOLEAN : PredictionInit(hidden)

SpecPrediction == InitPrediction /\ [][NextPrediction]_vars


(***************************************************************************)
(* Properties of the rate-limited handler (checked under Spec).            *)
(***************************************************************************)
\* the window of key k is open at the current instant and already holds
\* maxRequests let-through requests
WindowFull(k) ==
  win[k].open /\ now <= win[k].t0 + windowMs /\ win[k].n >= maxRequests

\* C1: per key, never more than maxRequests requests are let through in one
\* window [t0, t0 + windowMs] opened by a let-through request at t0; a GET
\* arriving in a window that already holds maxRequests is answered 429 with
\* Retry-After: 60.
C1_AtMostMaxPerWindow ==
  [][ /\ \A k \in Keys : win'[k].n <= maxRequests
      /\ (now' = now /\ req'.method = "GET" /\ WindowFull(ClientIp(req'.ip)))
           => (last'.status = 429 /\ last'.headers["Retry-After"] = <<"6", "0">>)
    ]_vars

C1_Witness ==
  /\ last.status = 429
  /\ last.headers["Retry-After"] = <<"6", "0">>
  /\ WindowFull(ClientIp(req.ip))

\* C2: a client that never sends more than maxRequests GET requests in any
\* half-open span of windowMs is never answered 429.
C2_CompliantNeverLimited ==
  (compliantA /\ req.method = "GET" /\ ClientIp(req.ip) = "A")
    => last.status # 429

\* C3: the limit of every 200 response body is an integer in 1..100, whatever
\* the limit parameter was.
C3_LimitAlwaysInRange ==
  last.status = 200 => (~last.limit.null /\ last.limit.n \in 1..100)

\* C5: a request whose method is not GET is answered 405 with Allow: GET and
\* leaves the rate-limit map and the cached handle as they were.
C5_NonGetIs405 ==
  [][ (now' = now /\ req'.method # "GET")
        => /\ last'.status = 405
           /\ last'.headers["Allow"] = <<"GET">>
           /\ rateLimitMap' = rateLimitMap
           /\ cachedSql' = cachedSql
    ]_vars

C5_Witness ==
  /\ last.status = 405
  /\ req.ip = "A"
  /\ WindowFull("A")
  /\ rateLimitMap["A"].count = maxRequests

\* C6: the status is 405 iff the method is not GET; else 429 iff the limiter
\* denies; else 500 iff getting the handle or parsing the URL throws; else
\* 200.  A 500 body has exactly the fields error, message and timestamp and
\* none of them is the stack, which is in the log.
C6_StatusDecision ==
  [][ now' = now =>
        LET isGet == req'.method = "GET"
            denied == WindowFull(ClientIp(req'.ip))
            threw == (cachedSql = 0 /\ req'.outcome # "ok") \/ req'.urlThrows
        IN  /\ last'.status \in {200, 405, 429, 500}
            /\ (last'.status = 405) <=> ~isGet
            /\ isGet => ((last'.status = 429) <=> denied)
            /\ (isGet /\ ~denied) => ((last'.status = 500) <=> threw)
            /\ (isGet /\ ~denied /\ ~threw) => last'.status = 200
            /\ last'.status = 500 =>
                 /\ DOMAIN last'.body = {"error", "message", "timestamp"}
                 /\ \A f \in DOMAIN last'.body : last'.body[f] # last'.thrown.stack
                 /\ last'.thrown.isError => last'.log["stack"] = last'.thrown.stack
    ]_vars

C6_Witness ==
  /\ last.status = 500
  /\ last.thrown.isError
  /\ last.log["stack"] = last.thrown.stack

\* C7: neon() returns a handle at most once; once cachedSql is set it never
\* changes and neon() is not called again.
C7_SingleConstruction ==
  [][ /\ neonOk' <= 1
      /\ cachedSql # 0 => (cachedSql' = cachedSql /\ neonOk' = neonOk)
    ]_vars

C7_Witness ==
  /\ cachedSql # 0
  /\ neonOk = 1
  /\ last.status = 200
  /\ req.outcome # "ok"

\* C8: whether a request of A is accepted is what a limiter that only ever
\* saw A's requests decides, whatever the other keys did (sweep included).
C8_DecisionIndependent ==
  decA.asked => decA.real = decA.iso

C8_Witness ==
  /\ decA.asked
  /\ ~decA.real
  /\ win["unknown"].open
  /\ ~rateLimitMap["unknown"].present

(***************************************************************************)
(* The limit computation (checked under SpecLimit).                        *)
(***************************************************************************)
\* C4: for the decimal text of an integer n the effective limit is
\* min(max(n, 1), 100); for an absent or empty parameter it is 10.
C4_LimitClamped ==
  limitOut.done =>
    /\ \A n \in LimitRange :
         limitArg = Given(IntStrings[n]) =>
           limitOut.v = Num(IF n < 1 THEN 1 ELSE IF n > 100 THEN 100 ELSE n)
    /\ (limitArg.null \/ limitArg.s = <<>>) => limitOut.v = Num(10)

C4_Witness ==
  /\ limitOut.done
  /\ limitArg = Given(<<"5", "0", "0">>)
  /\ limitOut.v = Num(100)

(***************************************************************************)
(* Properties of the App component (checked under SpecApp).                *)
(***************************************************************************)
\* C9: a render that finds the coins reference the previous render saw gets
\* the same formattedCoins reference and runs no formatting.
C9_MemoStable ==
  [][ \A i \in Instances :
        (renders[i] > 0 /\ renders'[i] > renders[i] /\ memoDeps[i] = coins[i])
          => (formattedCoins'[i] = formattedCoins[i]
              /\ formatCalls'[i] = formatCalls[i])
    ]_vars

C9_Witness ==
  \E i \in Instances :
    renders[i] = 3 /\ coins[i] = 1 /\ memoDeps[i] = 1 /\ formatCalls[i] = 2

\* C10: once the cleanup of an instance has aborted its controller, coins,
\* loading and error of that instance never change.
C10_NoUpdateAfterCleanup ==
  [][ \A i \in Instances :
        aborted[i] => (coins'[i] = coins[i] /\ loading'[i] = loading[i]
                       /\ error'[i] = error[i])
    ]_vars

C10_Witness ==
  \E i \in Instances :
    aborted[i] /\ phase[i] = "unmounted" /\ coins[i] = 1 /\ ~loading[i]

(***************************************************************************)
(* Properties of the ErrorBoundary (checked under SpecBoundary).           *)
(***************************************************************************)
\* the last render showed the default error page with its reload button
ShowsReloadPage ==
  /\ ebView.kind = "errorPage"
  /\ ebView.heading = "Something went wrong"
  /\ ebView.button = "Reload Page"

\* C11 as stated: whenever the boundary has caught an error, it renders the
\* error page that offers a reload, whatever the fallback prop holds.
C11_AlwaysReloadPage ==
  ebState.hasError => ShowsReloadPage

\* C11: whenever the boundary has caught an error and its fallback prop is
\* absent or falsy, it renders the error page with the error's message and
\* the Reload button; with a truthy fallback prop it renders that fallback
\* instead, which carries nothing of the default page.
C11_ReloadPageUnlessFallback ==
  ebState.hasError =>
    IF Truthy(ebProps.fallback)
      THEN ebView = FallbackView(ebProps.fallback)
      ELSE ShowsReloadPage /\ ebView.message = ErrorText(ebState.error)

C11_Witness ==
  /\ ebState.hasError
  /\ ebState.error.message = "boom"
  /\ ebProps.fallback = "null"
  /\ ShowsReloadPage
  /\ ebView.message = "boom"

(***************************************************************************)
(* Properties of the migration (checked under SpecMigration).              *)
(***************************************************************************)
CreatedByStatement == {i \in db.indexes : i.by = "statement"}

BackingConstraints == {i \in db.indexes : i.by = "constraint"}

\* C13 as stated: once the migration has been applied to the empty
\* database, it holds exactly the 3 tables, exactly 11 indexes and 9
\* policies, with row-level security enabled on the 3 tables.
C13_ElevenIndexes ==
  MigrationApplied =>
    /\ db.tables = Tables
    /\ Cardinality(db.indexes) = 11
    /\ Cardinality(db.policies) = 9
    /\ db.rls = Tables

\* C13: once the migration has been applied to the empty database, it
\* holds exactly the 3 tables, exactly the 11 indexes of the CREATE INDEX
\* statements besides the 5 unique indexes that back the primary keys and
\* UNIQUE constraints (16 indexes on the 3 tables), and 9 policies, with
\* row-level security enabled on the 3 tables.
C13_ElevenCreatedIndexes ==
  MigrationApplied =>
    /\ db.tables = Tables
    /\ Cardinality(CreatedByStatement) = 11
    /\ Cardinality(BackingConstraints) = 5
    /\ Cardinality(db.indexes) = 16
    /\ \A i \in db.indexes : i.on \in Tables
    /\ Cardinality(db.policies) = 9
    /\ db.rls = Tables

C13_Witness ==
  /\ MigrationApplied
  /\ Cardinality(db.tables) = 3
  /\ Index("idx_news_sentiment", "coin_news", "statement") \in db.indexes
  /\ Index("coins_symbol_key", "coins", "constraint") \in db.indexes

\* the latest query ran after the whole migration was applied
AskedAfterMigration ==
  dbQuery.asked /\ dbQuery.at = Len(Migration) + 1 /\ MigrationApplied

Writers == {"authenticated", "service_role"}

\* C14: under the policies of the applied migration, on each of the three
\* tables a SELECT is permitted for every role, an INSERT or UPDATE is
\* permitted exactly for the roles authenticated and service_role (so it is
\* denied for anon), and a DELETE is permitted for no role: no policy is
\* FOR DELETE or FOR ALL.
C14_RlsPolicies ==
  /\ AskedAfterMigration =>
       dbQuery.outcome =
         IF dbQuery.cmd = "SELECT" THEN "permitted"
         ELSE IF dbQuery.cmd \in {"INSERT", "UPDATE"} /\ dbQuery.role \in Writers
           THEN "permitted"
         ELSE "denied"
  /\ MigrationApplied =>
       /\ \A p \in db.policies : p.cmd \notin {"DELETE", "ALL"}
       /\ \A t \in Tables : \A role \in Roles :
            ~PolicyPermits(db, role, "DELETE", t)

C14_Witness ==
  /\ AskedAfterMigration
  /\ dbQuery.role = "anon"
  /\ dbQuery.cmd = "INSERT"
  /\ dbQuery.on = "coin_news"
  /\ dbQuery.outcome = "denied"

(***************************************************************************)
(* Properties of scripts/quickstart.sh (checked under SpecQuickstart).     *)
(***************************************************************************)
\* a step has run only after the step before it succeeded
RunInOrder ==
  \A i \in 2..Len(Steps) : qResult[i] # "not run" => qResult[i - 1] = "ok"

\* a failure of one of the first five steps ended the script at that step
\* with a non-zero status
ExitsAtFirstFailure ==
  \A i \in 1..(Len(Steps) - 1) :
    qResult[i] = "failed" =>
      /\ qStatus > 0
      /\ ~SetupComplete
      /\ \A j \in (i + 1)..Len(Steps) : qResult[j] = "not run"

\* a failing audit is a warning, and the script completes with status 0
AuditOnlyWarns ==
  qResult[Len(Steps)] = "failed" =>
    SetupComplete /\ qStatus = 0 /\ "Some vulnerabilities detected" \in qWarned

\* the version check was skipped because MAJOR_VERSION came out empty
VersionCheckSkipped ==
  /\ ~VersionParsed(MajorVersion(NodeVersionOutput(qEnv.nodeMajor, qEnv.style)))
  /\ "Could not parse Node.js version" \in qWarned

\* C15 as stated: the steps run in order; Setup Complete is reached only
\* with Node.js and npm present, a Node.js major version of at least 18 and
\* install, lint, type-check and build succeeded; the first failing step
\* exits non-zero; a failing audit only warns.
C15_CompleteNeedsNode18 ==
  /\ RunInOrder
  /\ SetupComplete =>
       /\ qEnv.node /\ qEnv.npm
       /\ qEnv.nodeMajor >= MinNodeMajor
       /\ \A i \in 1..(Len(Steps) - 1) : qResult[i] = "ok"
  /\ ExitsAtFirstFailure
  /\ AuditOnlyWarns

\* C15: the steps run in the order prerequisites, npm install, lint,
\* type-check, build, audit; Setup Complete is reached only with Node.js and
\* npm present, a Node.js major version of at least 18 or one the script
\* could not parse from `node --version` (the check is then skipped with a
\* warning), and install, lint, type-check and build succeeded; the first
\* of these that fails exits non-zero; a failing audit only warns.
C15_CompleteNeedsCheckedSteps ==
  /\ RunInOrder
  /\ SetupComplete =>
       /\ qEnv.node /\ qEnv.npm
       /\ qEnv.nodeMajor >= MinNodeMajor \/ VersionCheckSkipped
       /\ \A i \in 1..(Len(Steps) - 1) : qResult[i] = "ok"
  /\ ExitsAtFirstFailure
  /\ AuditOnlyWarns

C15_Witness ==
  /\ SetupComplete
  /\ qEnv.nodeMajor = MinNodeMajor /\ qEnv.style = "plain"
  /\ ~qEnv.git
  /\ qResult[Len(Steps)] = "failed"
  /\ qStatus = 0

(***************************************************************************)
(* The limiter's records, headers and sweep (checked under Spec).  A step  *)
(* that leaves now unchanged is a request; req' is the request it handles. *)
(***************************************************************************)
\* the stored record lets a request at the current instant open a new window
OpensWindow(record) == ~record.present \/ now > record.resetTime

\* C16: a GET from a key with no record, or arriving with now > resetTime,
\* is let through and leaves the record count = 1, resetTime = now +
\* windowMs; a GET arriving with now <= resetTime (now = resetTime
\* included) is counted in the stored window: resetTime stays, count grows
\* by one while below maxRequests, and the request is refused at maxRequests.
C16_FixedWindow ==
  [][ (now' = now /\ req'.method = "GET") =>
        LET k == ClientIp(req'.ip)
            old == rateLimitMap[k]
            new == rateLimitMap'[k]
        IN  IF OpensWindow(old)
              THEN last'.status # 429 /\ new = Record(1, now + windowMs)
              ELSE /\ new.present
                   /\ new.resetTime = old.resetTime
                   /\ new.count = IF old.count < maxRequests
                                    THEN old.count + 1 ELSE old.count
                   /\ (last'.status = 429) <=> (old.count >= maxRequests)
    ]_vars

C16_Witness ==
  /\ req.method = "GET" /\ req.ip = "A"
  /\ last.status # 429
  /\ compliantA /\ recentA[0] >= 1
  /\ rateLimitMap["A"].present
  /\ rateLimitMap["A"].resetTime = now
  /\ rateLimitMap["A"].count = maxRequests

RemainingHeader(resp) == resp.headers["X-RateLimit-Remaining"]

\* C17: on a 200 the X-RateLimit-Remaining header is maxRequests minus the
\* requests of that key let through in its window, this one included: it
\* is maxRequests - 1 on the request that opens a window, 0 on the
\* maxRequests-th, never negative; while the window stays open the next GET
\* of the key is let through iff the header was above 0, and its own 200
\* shows one less; on a 429 the header is 0.
C17_RemainingHeader ==
  [][ (now' = now /\ req'.method = "GET") =>
        LET k == ClientIp(req'.ip)
            old == rateLimitMap[k]
        IN  /\ last'.status = 200 =>
                 /\ win'[k].n <= maxRequests
                 /\ RemainingHeader(last') = IntToStr(maxRequests - win'[k].n)
                 /\ OpensWindow(old) =>
                      RemainingHeader(last') = IntToStr(maxRequests - 1)
                 /\ win'[k].n = maxRequests => RemainingHeader(last') = <<"0">>
            /\ last'.status = 429 => RemainingHeader(last') = <<"0">>
            /\ (last.status = 200 /\ ClientIp(req.ip) = k /\ ~OpensWindow(old)) =>
                 /\ (last'.status # 429) <=> (RemainingHeader(last) # <<"0">>)
                 /\ last'.status = 200 =>
                      IntToStr(maxRequests - win'[k].n + 1) = RemainingHeader(last)
    ]_vars

C17_Witness ==
  /\ last.status = 200
  /\ req.ip = "A"
  /\ win["A"].n = maxRequests
  /\ RemainingHeader(last) = <<"0">>

\* the sweep of a call at the current instant removes this record
Stale(record) == record.present /\ record.resetTime < now - windowMs

\* C18: a call of checkRateLimit sweeps only when it finds more than
\* MAX_RATE_LIMIT_ENTRIES records, and then removes exactly the records with
\* resetTime < now - windowMs; a record whose window is open (resetTime >=
\* now) stays with its resetTime, and no window ever holds more than
\* maxRequests let-through requests; a request that is not a GET leaves the
\* map alone.
C18_SweepExact ==
  [][ now' = now =>
        IF req'.method = "GET"
          THEN LET k == ClientIp(req'.ip)
                   sweeps == MapSize(rateLimitMap) > MAX_RATE_LIMIT_ENTRIES
               IN  /\ \A j \in Keys \ {k} :
                        rateLimitMap'[j] =
                          IF sweeps /\ Stale(rateLimitMap[j])
                            THEN NoRecord ELSE rateLimitMap[j]
                   /\ \A j \in Keys :
                        (rateLimitMap[j].present /\ rateLimitMap[j].resetTime >= now)
                          => /\ rateLimitMap'[j].present
                             /\ rateLimitMap'[j].resetTime = rateLimitMap[j].resetTime
                   /\ \A j \in Keys : win'[j].n <= maxRequests
          ELSE rateLimitMap' = rateLimitMap
    ]_vars

C18_Witness ==
  /\ req.method = "GET" /\ req.ip = "A"
  /\ rateLimitMap["A"].present
  /\ win["unknown"].open
  /\ ~rateLimitMap["unknown"].present

\* C19: at the end of a call of checkRateLimit that found more than
\* MAX_RATE_LIMIT_ENTRIES records, every record left has resetTime >= now -
\* windowMs: what the map then holds beyond the threshold are windows still
\* open or closed for less than windowMs.
C19_NoStaleRecordAfterSweep ==
  [][ (now' = now /\ req'.method = "GET"
         /\ MapSize(rateLimitMap) > MAX_RATE_LIMIT_ENTRIES) =>
        \A j \in Keys :
          rateLimitMap'[j].present => rateLimitMap'[j].resetTime >= now - windowMs
    ]_vars

C19_Witness ==
  /\ req.method = "GET" /\ req.ip = ""
  /\ rateLimitMap["unknown"].present
  /\ win["A"].open /\ win["A"].t0 + 2 * windowMs < now
  /\ ~rateLimitMap["A"].present

\* C20: every record of the map has 1 <= count <= maxRequests and resetTime
\* = the arrival time of the request that opened its window + windowMs, its
\* count being the requests let through in that window; after a request
\* that was let through (answered 200 or 500) the map holds a record for its
\* key, so the 200's header never comes from the fallback for a missing
\* record.
C20_RecordInvariant ==
  /\ \A k \in Keys :
       rateLimitMap[k].present =>
         /\ 1 <= rateLimitMap[k].count
         /\ rateLimitMap[k].count <= maxRequests
         /\ win[k].open
         /\ rateLimitMap[k].resetTime = win[k].t0 + windowMs
         /\ rateLimitMap[k].count = win[k].n
  /\ last.status \in {200, 500} =>
       rateLimitMap[ClientIp(req.ip)].present
  /\ last.status = 200 =>
       RemainingHeader(last) =
         IntToStr(maxRequests - rateLimitMap[ClientIp(req.ip)].count)

C20_Witness ==
  /\ last.status = 500
  /\ req.ip = ""
  /\ rateLimitMap["unknown"].present
  /\ rateLimitMap["unknown"].count = maxRequests
  /\ rateLimitMap["unknown"].resetTime = win["unknown"].t0 + windowMs

\* C21: a GET answered 429 leaves the record of its key as it was, with
\* count = maxRequests and the same resetTime.
C21_DeniedLeavesRecord ==
  [][ (now' = now /\ req'.method = "GET" /\ last'.status = 429) =>
        LET k == ClientIp(req'.ip)
        IN  /\ rateLimitMap[k].present
            /\ rateLimitMap'[k] = rateLimitMap[k]
            /\ rateLimitMap'[k].count = maxRequests
    ]_vars

C21_Witness ==
  /\ last.status = 429
  /\ req.ip = "A"
  /\ sinceDeniedA = 0
  /\ now > win["A"].t0
  /\ rateLimitMap["A"].count = maxRequests
  /\ rateLimitMap["A"].resetTime = win["A"].t0 + windowMs

\* C22: a client answered 429 at time t whose next GET comes at t + windowMs
\* or later has that GET let through.
C22_RetryAfterAccepted ==
  [][ (now' = now /\ req'.method = "GET" /\ ClientIp(req'.ip) = "A"
         /\ sinceDeniedA = windowMs) =>
        last'.status # 429
    ]_vars

\* C23: requests without a client IP are all counted under the key
\* "unknown", a window of that key never holds more than maxRequests
\* let-through requests, and a request with a client IP neither counts in
\* that window nor changes that record (but for the sweep removing it).
C23_UnknownBucket ==
  [][ (now' = now /\ req'.method = "GET") =>
        LET old == rateLimitMap["unknown"]
            new == rateLimitMap'["unknown"]
        IN  /\ win'["unknown"].n <= maxRequests
            /\ req'.ip = "" =>
                 /\ \A k \in ClientIPs : rateLimitMap'[k] \in {rateLimitMap[k], NoRecord}
                 /\ \A k \in ClientIPs : win'[k] = win[k]
                 /\ last'.status # 429 =>
                      /\ new.present
                      /\ new.count = IF OpensWindow(old) THEN 1 ELSE old.count + 1
                      /\ win'["unknown"] = CountInWindow(win["unknown"], now)
                 /\ last'.status = 429 => (old.present /\ old.count >= maxRequests)
            /\ req'.ip # "" =>
                 /\ new \in {old, NoRecord}
                 /\ win'["unknown"] = win["unknown"]
    ]_vars

C23_Witness ==
  /\ req.method = "GET" /\ req.ip = "" /\ last.status = 429
  /\ rateLimitMap["unknown"].count = maxRequests
  /\ rateLimitMap["A"].present /\ rateLimitMap["A"].count < maxRequests
  /\ now <= rateLimitMap["A"].resetTime

\* C24: a GET that passes the limiter uses up one unit of its key's window
\* whatever happens next; while cachedSql is null such a GET calls neon():
\* if neon() throws, cachedSql stays null and the answer is 500, so the next
\* GET past the limiter calls neon() again; if it returns, the handle is
\* cached.
C24_FailureNotCached ==
  [][ (now' = now /\ req'.method = "GET" /\ last'.status # 429) =>
        LET k == ClientIp(req'.ip)
            old == rateLimitMap[k]
            new == rateLimitMap'[k]
        IN  /\ new.present
            /\ new.count = IF OpensWindow(old) THEN 1 ELSE old.count + 1
            /\ cachedSql = 0 =>
                 IF req'.outcome = "ok"
                   THEN cachedSql' # 0 /\ neonOk' = neonOk + 1
                   ELSE /\ cachedSql' = 0 /\ neonOk' = neonOk
                        /\ last'.status = 500
                        /\ last'.thrown.caught
    ]_vars

C24_Witness ==
  /\ last.status = 500
  /\ req.outcome = "Error"
  /\ cachedSql = 0
  /\ rateLimitMap[ClientIp(req.ip)].count = maxRequests
  /\ win[ClientIp(req.ip)].n = maxRequests

(***************************************************************************)
(* The App component's state and view (checked under SpecApp).             *)
(***************************************************************************)
\* C25: for every App instance, loading is true at the first render and,
\* once false, stays false; error is non-null only with loading false and
\* coins still the initial empty list; each render returns the loading
\* message iff loading, else the error message iff error is non-null, else
\* the coin list.
C25_AppState ==
  [][ \A i \in Instances :
        /\ (phase[i] = "none" /\ phase'[i] # "none") => loading'[i]
        /\ ~loading[i] => ~loading'[i]
        /\ error'[i] # FALSE => (~loading'[i] /\ coins'[i] = 0)
        /\ renders'[i] # renders[i] =>
             view'[i] = IF loading'[i] THEN "loading"
                        ELSE IF error'[i] # FALSE THEN "error"
                        ELSE "coins"
    ]_vars

C25_Witness ==
  \E i \in Instances :
    /\ phase[i] = "mounted"
    /\ ~loading[i]
    /\ coins[i] # 0
    /\ error[i] = FALSE
    /\ renders[i] >= 2
    /\ view[i] = "coins"

(***************************************************************************)
(* The ErrorBoundary's state over time (checked under SpecBoundary).       *)
(***************************************************************************)
\* C26: hasError starts false; a descendant throwing during render makes it
\* true; from then on, until the page is reloaded, every render and prop
\* change leaves it true with the same error and never returns the
\* children; a reload starts again from false.
C26_HasErrorAbsorbing ==
  [][ /\ ebRenders = 0 => ~ebState.hasError
      /\ ebLogged' = ebLogged + 1 => (~ebState.hasError /\ ebState'.hasError)
      /\ (~ebState.hasError /\ ebState'.hasError) => ebLogged' = ebLogged + 1
      /\ (ebState.hasError /\ ebReloads' = ebReloads) =>
           /\ ebState' = ebState
           /\ ebView'.kind \in {"fallback", "errorPage"}
      /\ ebState'.hasError => ebView'.kind # "children"
      /\ ebReloads' # ebReloads => ~ebState'.hasError
    ]_vars

C26_Witness ==
  /\ ebReloads = 1
  /\ ebState.hasError
  /\ ebLogged = 1
  /\ ebProps.fallback = "element"
  /\ ebView.kind = "fallback"


\* C27: premium content is gated.  Whenever the whale tab is the active one:
\* if #whale-content is not hidden then isPremium is true and #whale-lock is
\* hidden, and if isPremium is false then the lock is shown and the content
\* hidden.
C27_PremiumGate ==
  activeTab = "whale" =>
    /\ ~contentHidden => (isPremium /\ lockHidden)
    /\ ~isPremium => (~lockHidden /\ contentHidden)

\* on the whale tab, a wallet without the token connected after a completed
\* subscription: the gate closed again
C27_Witness ==
  /\ activeTab = "whale"
  /\ subscribed
  /\ userAddress = Address("7")
  /\ ~isPremium /\ ~lockHidden /\ contentHidden

\* C28: once a subscription confirmation has completed the user stays
\* premium for the rest of the page session.
C28_StaysPremium == subscribed => isPremium

\* C29: the prediction results shown belong to the most recent click: when
\* the results on the page are replaced, the new ones never come from an
\* earlier click than the ones they replace.
C29_LatestClickShown ==
  [][ shown' # shown => shown'.click >= shown.click ]_vars

====
